---- MODULE Spec2Model ----
(***************************************************************************)
(* Job lifecycle and human-approval gate of the live browser server        *)
(* (src/src/server/live_browser_server.py) together with the approval part *)
(* of the browser agent (src/src/agents/simple_browser_agent.py).          *)
(*                                                                         *)
(* The server is one asyncio event loop.  A coroutine runs without         *)
(* interruption until it suspends at an await that really yields.  The     *)
(* variable running names the coroutine that holds the loop between two    *)
(* of its steps that are not separated by a suspension; every other        *)
(* coroutine can take a step only while running = Nobody.                  *)
(* broadcast_job_update awaits send_text once per connected websocket, so  *)
(* it is a suspension point exactly when the job has a connected           *)
(* websocket.                                                              *)
(*                                                                         *)
(* Spec is the job lifecycle, with one websocket per job and one global    *)
(* websocket, each identified with the updates it received.  FairSpec adds *)
(* that the loop runs every ready task.  ConnSpec is ConnectionManager at  *)
(* the level of its lists and of the single send_text, with several        *)
(* websockets per list and concurrent publishers.                          *)
(* PairSpec is two jobs side by side, ApiSpec one job with the clients'    *)
(* read operations, and PuppeteerSpec one call of the Puppeteer engine     *)
(* with the server manager of its agent                                    *)
(* (src/src/agents/puppeteer_browser_agent.py,                             *)
(* src/src/utils/puppeteer_server_manager.py).                             *)
(***************************************************************************)
EXTENDS Integers, Sequences, FiniteSets, TLC

\* ---------------------------------------------------------------- bounds
MaxJobs == 1
MaxCalls == 2
MaxSockets == 2
MaxPublishes == 3

JobIds == 1..MaxJobs
\* The ids a client may name: those of the jobs, and one that no job ever gets.
RequestIds == 1..(MaxJobs + 1)
\* The analyst who makes the n-th approve_job call.
Analysts == <<"alice", "bob", "carol", "dave">>

\* ------------------------------------------------------------- JobStatus
QUEUED == "queued"
RUNNING == "running"
WAITING_FOR_APPROVAL == "waiting_for_approval"
APPROVED == "approved"
REJECTED == "rejected"
COMPLETED == "completed"
FAILED == "failed"

JobStatus == {QUEUED, RUNNING, WAITING_FOR_APPROVAL, APPROVED, REJECTED, COMPLETED, FAILED}

\* Python's None for a dict-valued field, and a key that a dict does not hold.
None == [none |-> TRUE]
NoError == "None"
Missing == "missing"
\* A Python bool stored where the key may also be missing.
PyBool(b) == IF b THEN "True" ELSE "False"

\* dict.get(key, default) on a dict modelled as a function.
Get(d, key, default) == IF key \in DOMAIN d THEN d[key] ELSE default

\* The empty dict.
Empty == [k \in {} |-> None]

\* dict.pop(key, None): the mapping without key; no error when key is absent.
Pop(d, key) == [k \in DOMAIN d \ {key} |-> d[k]]

VARIABLES
    jobs,               \* LiveJobManager.jobs: job id -> job record
    pending_approvals,  \* LiveJobManager.pending_approvals: job id -> asyncio.Event (is it set)
    approval_data,      \* LiveJobManager.approval_data: job id -> form preview
    job_connections,    \* ConnectionManager.job_connections: job id -> events its websocket received
    task,               \* the owning task of each job: position and locals
    calls,              \* approve_job invocations suspended in their broadcast
    ncalls,             \* history: the number of approve_job invocations made
    returned,           \* history: job id -> the invocations that returned True, in order
    refused,            \* history: what the invocations that returned False saw
    running,            \* the coroutine that holds the event loop
    global_connections  \* ConnectionManager.global_connections: websocket -> events it received

\* ConnectionManager at the level of its lists and of the single send_text, under
\* concurrent callers (specification ConnSpec).
VARIABLES
    job_sockets,        \* job_connections as the code holds it: job id -> list of websockets
    global_sockets,     \* global_connections as the code holds it: list of websockets
    sockets,            \* websocket -> is it open, and the updates its client received
    broadcasts,         \* publisher -> its broadcast in progress (update, position in the list)
    published,          \* history: the publishers of the broadcasts, in the order they started
    raised              \* history: a ConnectionManager call has raised

\* The engine side of a job, and a call of the Puppeteer engine on its own
\* (specification PuppeteerSpec).
VARIABLES
    submitted,          \* history: job id -> the browser_engine of the submitted body
    job_screenshots,    \* LiveJobManager.job_screenshots: job id -> latest screenshot
    monitor,            \* the screenshot-monitoring task of each job's agent
    pup                 \* a call of PuppeteerBrowserAgent.fill_generic_form_puppeteer

\* The HTTP read operations, and the Puppeteer server the agent manages.
VARIABLES
    reply,              \* history: the last response of a read or refresh operation
    manager             \* the agent's PuppeteerServerManager and the server's port

api_vars == <<reply, manager>>

engine_vars == <<submitted, job_screenshots, monitor>>

lifecycle_vars == <<jobs, pending_approvals, approval_data, job_connections, task, calls,
                    ncalls, returned, refused, running, global_connections, engine_vars, pup,
                    api_vars>>

cm_vars == <<job_sockets, global_sockets, sockets, broadcasts, published, raised>>

vars == <<lifecycle_vars, cm_vars>>

Nobody == [kind |-> "nobody", id |-> 0]
TaskOf(j) == [kind |-> "task", id |-> j]

\* A coroutine may take its next step: the loop is free, or it holds the loop.
MayRun(me) == running = Nobody \/ running = me
\* A suspended or new coroutine is run by the loop only when no coroutine holds it.
LoopFree == running = Nobody

\* ------------------------------------------------------ submitted requests
\* FormFillingRequest fields the lifecycle reads.
HttpUrl == "http://example.test/form"
BadUrl == "example.test/form"
TargetUrls == {HttpUrl, BadUrl}
\* str.startswith("http") on the urls above.
StartsWithHttp(url) == url = HttpUrl

Requests == [target_url : TargetUrls, require_human_approval : BOOLEAN]

\* The JSON bodies posted to /api/v1/form/submit: the fields above and the engine
\* selector the clients send (Missing: the body has no such key).
PUPPETEER == "puppeteer"
BrowserEngines == {PUPPETEER, "default", Missing}
Bodies == [target_url : TargetUrls, require_human_approval : BOOLEAN,
           browser_engine : BrowserEngines]

\* FormFillingRequest(**body), as FastAPI builds it: the model declares no
\* browser_engine field and no Config, so pydantic drops a key it does not know.
FormFillingRequest(body) ==
    [target_url |-> body.target_url, require_human_approval |-> body.require_human_approval]

\* request.dict(): the declared fields.
Dict(request) == request

\* ------------------------------------------------------- engine results
InvalidUrlResult == [success |-> FALSE, error |-> "Invalid target URL"]
InitFailedResult == [success |-> FALSE, error |-> "Failed to initialize browser"]
EngineErrorResult == [success |-> FALSE, error |-> "Error during form filling"]
RejectedResult == [success |-> FALSE, reason |-> "Rejected by human reviewer"]
SuccessResult == [success |-> TRUE, message |-> "form submitted successfully (simulated)"]

FormPreview(j) == [target_url |-> jobs[j].request_data.target_url]

\* --------------------------------------------------------- owning task
\* Positions of process_job_with_real_browser (and of the engine call inside it).
\* approved: the value approval_callback returned to the engine; result: the value
\* the engine call returned to process_job_with_real_browser.
\* agent: the class of the agent the task constructed.
NoTask == [pc |-> "none", approved |-> Missing, result |-> None, agent |-> Missing]
NewTask == [pc |-> "created", approved |-> Missing, result |-> None, agent |-> Missing]

At(j, label) == task[j].pc = label
Goto(j, label) == [task EXCEPT ![j].pc = label]

\* The event loop is shutting down: it has cancelled an owning task.  Cancellation
\* is the end of asyncio.run, after the server stopped taking requests.
ShuttingDown == \E j \in DOMAIN task : task[j].pc \in {"unwinding", "cancelled"}

\* A request handler starts: the loop is free and the server still serves.
Serving == LoopFree /\ ~ShuttingDown

\* -------------------------------------------------- ConnectionManager
\* The job has a connected websocket: broadcast_job_update awaits send_text.
Connected(j) == j \in DOMAIN job_connections

\* broadcast_job_update: the update reaches the job's websocket, if any.
broadcast_job_update(conns, j, update_type) ==
    IF j \in DOMAIN conns THEN [conns EXCEPT ![j] = Append(@, update_type)] ELSE conns

\* Who holds the loop after a broadcast by me for job j.
AfterBroadcast(me, j) == IF Connected(j) THEN Nobody ELSE me

\* connect_job: a new websocket subscribes to job_id (any id, known or not).
connect_job(j) ==
    /\ Serving
    /\ ~Connected(j)
    /\ job_connections' = job_connections @@ (j :> <<>>)
    /\ UNCHANGED <<jobs, pending_approvals, approval_data, task, calls, ncalls, returned, refused, running>>
    /\ UNCHANGED <<global_connections, cm_vars, engine_vars, pup, api_vars>>

\* disconnect_job: the websocket of job_id goes away.
disconnect_job(j) ==
    /\ Serving
    /\ Connected(j)
    /\ job_connections' = Pop(job_connections, j)
    /\ UNCHANGED <<jobs, pending_approvals, approval_data, task, calls, ncalls, returned, refused, running>>
    /\ UNCHANGED <<global_connections, cm_vars, engine_vars, pup, api_vars>>

\* A websocket that subscribes to all jobs.
GlobalSockets == {"g"}

\* connect_global: a websocket subscribes to the updates of all jobs.
connect_global(ws) ==
    /\ Serving
    /\ ws \notin DOMAIN global_connections
    /\ global_connections' = global_connections @@ (ws :> <<>>)
    /\ UNCHANGED <<jobs, pending_approvals, approval_data, job_connections, task, calls,
                   ncalls, returned, refused, running, cm_vars, engine_vars, pup, api_vars>>

\* disconnect_global: the websocket goes away.
disconnect_global(ws) ==
    /\ Serving
    /\ ws \in DOMAIN global_connections
    /\ global_connections' = Pop(global_connections, ws)
    /\ UNCHANGED <<jobs, pending_approvals, approval_data, job_connections, task, calls,
                   ncalls, returned, refused, running, cm_vars, engine_vars, pup, api_vars>>

\* ------------------------------------------------ screenshot monitoring
\* The iterations of the monitoring loop that are followed for one job.
MaxShots == 1

\* What take_screenshot hands to screenshot_callback.
Screenshot == [format |-> "png"]

\* The monitoring task of a job's agent.  state: "none", no task was created;
\* "looping", the task runs _continuous_screenshot_loop; "stopping", the flag
\* continuous_monitoring is False and the task was cancelled; "finished".
\* shots: the screenshots the loop has taken.
NoMonitor == [state |-> "none", shots |-> 0]

\* start_continuous_monitoring: the flag is set and the task created.
start_continuous_monitoring(j) ==
    IF monitor[j].state = "none" THEN [monitor EXCEPT ![j].state = "looping"] ELSE monitor

\* stop_continuous_monitoring up to "await self.monitoring_task": the flag is
\* cleared and the task cancelled; without a task, or with a task that has
\* ended, nothing is awaited.
stop_continuous_monitoring(j) ==
    IF monitor[j].state = "looping" THEN [monitor EXCEPT ![j].state = "stopping"] ELSE monitor

\* "await self.monitoring_task" has returned, or there was nothing to await.
MonitoringNotAwaited(j) == TRUE

MonitoringStopped(j) == monitor[j].state \in {"none", "finished"}

\* screenshot_callback: the latest screenshot of the job is stored, and the
\* "screenshot_update" broadcast follows.
screenshot_callback(j) ==
    /\ job_screenshots' = (j :> Screenshot) @@ job_screenshots
    /\ job_connections' = broadcast_job_update(job_connections, j, "screenshot_update")

\* One iteration of _continuous_screenshot_loop: take_screenshot, which calls
\* screenshot_callback, and the sleep of screenshot_interval.
continuous_screenshot_loop(j) ==
    /\ LoopFree
    /\ monitor[j].state = "looping"
    /\ monitor[j].shots < MaxShots
    /\ screenshot_callback(j)
    /\ monitor' = [monitor EXCEPT ![j].shots = @ + 1]
    /\ UNCHANGED <<jobs, pending_approvals, approval_data, task, calls, ncalls, returned, refused, running>>
    /\ UNCHANGED <<global_connections, cm_vars, submitted, pup, api_vars>>

\* The cancelled monitoring task ends.  CancelledError reaches the handler of
\* the loop from the sleep or from the browser; a task cancelled inside the
\* send_text of a broadcast keeps running (the bare except of the broadcast takes
\* the CancelledError), finishes the broadcast and its sleep, reads the cleared
\* flag and leaves the loop.  Either way it takes no further screenshot.
MonitoringTaskEnds(j) ==
    /\ LoopFree
    /\ monitor[j].state = "stopping"
    /\ monitor' = [monitor EXCEPT ![j].state = "finished"]
    /\ UNCHANGED <<jobs, pending_approvals, approval_data, job_connections, task, calls, ncalls, returned, refused, running>>
    /\ UNCHANGED <<global_connections, cm_vars, submitted, job_screenshots, pup, api_vars>>

\* ------------------------------------------------------ LiveJobManager
\* uuid.uuid4(): an id no job has; the specification's tasks bound the jobs.
NewJobId == Cardinality(DOMAIN jobs) + 1

\* The record create_job stores.  The keys approve_job adds later are Missing.
NewJobRunning(request) ==
    [status |-> RUNNING, progress_percentage |-> 0, request_data |-> Dict(request),
     result |-> None, error |-> NoError,
     approved |-> Missing, approval_reason |-> Missing, approved_by |-> Missing]

NewJob(request) ==
    [status |-> QUEUED, progress_percentage |-> 0, request_data |-> Dict(request),
     result |-> None, error |-> NoError,
     approved |-> Missing, approval_reason |-> Missing, approved_by |-> Missing]

\* create_job(request): the record is stored under a new id, which is returned.
create_job(request) ==
    /\ NewJobId \in DOMAIN task
    /\ jobs' = jobs @@ (NewJobId :> NewJob(request))

\* submit_form_filling_job: FastAPI parses the body, create_job stores the job,
\* asyncio.create_task schedules the owning task, and the handler returns the id
\* without waiting for the task.
submit_form_filling_job(body) ==
    /\ Serving
    /\ create_job(FormFillingRequest(body))
    /\ task' = [task EXCEPT ![NewJobId] = NewTask]
    /\ submitted' = submitted @@ (NewJobId :> body.browser_engine)
    /\ UNCHANGED <<pending_approvals, approval_data, job_connections, calls, ncalls, returned, refused, running>>
    /\ UNCHANGED <<global_connections, cm_vars, job_screenshots, monitor, pup, api_vars>>

\* progress_callback: the engine's percentage is stored on the job as it comes;
\* the "progress" broadcast follows.
progress_callback(j, percentage) ==
    /\ jobs' = [jobs EXCEPT ![j].progress_percentage = percentage]
    /\ job_connections' = broadcast_job_update(job_connections, j, "progress")

\* process_job_with_real_browser, first step: QUEUED -> RUNNING and the
\* "Job started" broadcast.
TaskStart(j) ==
    /\ LoopFree
    /\ At(j, "created")
    /\ jobs' = [jobs EXCEPT ![j].status = RUNNING]
    /\ job_connections' = broadcast_job_update(job_connections, j, "status_change")
    /\ task' = Goto(j, "started")
    /\ running' = AfterBroadcast(TaskOf(j), j)
    /\ UNCHANGED <<pending_approvals, approval_data, calls, ncalls, returned, refused>>
    /\ UNCHANGED <<global_connections, cm_vars, engine_vars, pup, api_vars>>

\* "Create browser agent based on engine selection".
browser_engine(request_data) == Get(request_data, "browser_engine", "default")

AgentFor(request_data) ==
    IF browser_engine(request_data) = PUPPETEER THEN "PuppeteerBrowserAgent"
    ELSE "SimpleBrowserAgent"

\* The agent is built and the engine called; a target_url that does not start
\* with "http" gives the failure result without calling the engine.  The first
\* statement of either engine is a progress update with percentage 10; what
\* fill_generic_form_puppeteer does next is PuppeteerSpec.
InvokeEngineAnyUrl(j) ==
    /\ MayRun(TaskOf(j))
    /\ At(j, "started")
    /\ progress_callback(j, 10)
    /\ task' = [task EXCEPT ![j].pc = "initialize",
                            ![j].agent = AgentFor(jobs[j].request_data)]
    /\ running' = AfterBroadcast(TaskOf(j), j)
    /\ UNCHANGED <<pending_approvals, approval_data, calls, ncalls, returned, refused>>
    /\ UNCHANGED <<global_connections, cm_vars, engine_vars, pup, api_vars>>

InvokeEngine(j) ==
    /\ MayRun(TaskOf(j))
    /\ At(j, "started")
    /\ LET agent == AgentFor(jobs[j].request_data)
       IN IF StartsWithHttp(jobs[j].request_data.target_url)
          THEN /\ progress_callback(j, 10)
               /\ task' = [task EXCEPT ![j].agent = agent,
                                       ![j].pc = IF agent = "PuppeteerBrowserAgent"
                                                 THEN "puppeteer" ELSE "initialize"]
               /\ running' = AfterBroadcast(TaskOf(j), j)
          ELSE /\ task' = [task EXCEPT ![j].agent = agent, ![j].pc = "record",
                                       ![j].result = InvalidUrlResult]
               /\ running' = TaskOf(j)
               /\ UNCHANGED <<jobs, job_connections>>
    /\ UNCHANGED <<pending_approvals, approval_data, calls, ncalls, returned, refused>>
    /\ UNCHANGED <<global_connections, cm_vars, engine_vars, pup, api_vars>>

\* "except Exception" of process_job_with_real_browser: an exception raised while
\* the agent is set up reaches the handler.
HandleExceptionNoError(j) ==
    /\ MayRun(TaskOf(j))
    /\ At(j, "started")
    /\ jobs' = [jobs EXCEPT ![j].status = FAILED]
    /\ job_connections' = broadcast_job_update(job_connections, j, "error")
    /\ task' = Goto(j, "finally")
    /\ running' = AfterBroadcast(TaskOf(j), j)
    /\ UNCHANGED <<pending_approvals, approval_data, calls, ncalls, returned, refused>>
    /\ UNCHANGED <<global_connections, cm_vars, engine_vars, pup, api_vars>>

HandleException(j) ==
    /\ MayRun(TaskOf(j))
    /\ At(j, "started")
    /\ jobs' = [jobs EXCEPT ![j].status = FAILED, ![j].error = "exception"]
    /\ job_connections' = broadcast_job_update(job_connections, j, "error")
    /\ task' = Goto(j, "finally")
    /\ running' = AfterBroadcast(TaskOf(j), j)
    /\ UNCHANGED <<pending_approvals, approval_data, calls, ncalls, returned, refused>>
    /\ UNCHANGED <<global_connections, cm_vars, engine_vars, pup, api_vars>>

\* SimpleBrowserAgent.initialize succeeds: "Browser initialized", 5.
InitializeOk(j) ==
    /\ MayRun(TaskOf(j))
    /\ At(j, "initialize")
    /\ progress_callback(j, 5)
    /\ task' = Goto(j, "navigate")
    /\ running' = AfterBroadcast(TaskOf(j), j)
    /\ UNCHANGED <<pending_approvals, approval_data, calls, ncalls, returned, refused>>
    /\ UNCHANGED <<global_connections, cm_vars, engine_vars, pup, api_vars>>

\* "Navigating to target URL", 20; the engine suspends in browser.navigate.
Navigate(j) ==
    /\ MayRun(TaskOf(j))
    /\ At(j, "navigate")
    /\ progress_callback(j, 20)
    /\ task' = Goto(j, "filling")
    /\ running' = Nobody
    /\ UNCHANGED <<pending_approvals, approval_data, calls, ncalls, returned, refused>>
    /\ UNCHANGED <<global_connections, cm_vars, engine_vars, pup, api_vars>>

\* SimpleBrowserAgent.initialize fails ("Failed to initialize browser", 0): the
\* engine returns its failure result; no browser exists, so its finally clause
\* does not clean up.
InitializeFails(j) ==
    /\ MayRun(TaskOf(j))
    /\ At(j, "initialize")
    /\ progress_callback(j, 0)
    /\ task' = [task EXCEPT ![j].pc = "record", ![j].result = InitFailedResult]
    /\ running' = AfterBroadcast(TaskOf(j), j)
    /\ UNCHANGED <<pending_approvals, approval_data, calls, ncalls, returned, refused>>
    /\ UNCHANGED <<global_connections, cm_vars, engine_vars, pup, api_vars>>

\* An exception inside the engine's try block (navigation, a browser call): the
\* engine's "except Exception" reports progress 0, turns it into a failure result,
\* and its finally clause suspends in cleanup.
FillingRaises(j) ==
    /\ LoopFree
    /\ At(j, "filling")
    /\ progress_callback(j, 0)
    /\ task' = [task EXCEPT ![j].pc = "cleanup", ![j].result = EngineErrorResult]
    /\ running' = Nobody
    /\ UNCHANGED <<pending_approvals, approval_data, calls, ncalls, returned, refused>>
    /\ UNCHANGED <<global_connections, cm_vars, engine_vars, pup, api_vars>>

\* The fields are filled between sleeps, with progress rising from 30 to 82 and a
\* screenshot after each; the last update of the stage is "Form ready for human
\* approval", 90: what the stage leaves is the latest screenshot and the
\* percentage, and the last two updates it sent are "screenshot_update" and
\* "progress".
FormReady(j) ==
    /\ LoopFree
    /\ At(j, "filling")
    /\ job_screenshots' = (j :> Screenshot) @@ job_screenshots
    /\ jobs' = [jobs EXCEPT ![j].progress_percentage = 90]
    /\ job_connections' =
           broadcast_job_update(broadcast_job_update(job_connections, j, "screenshot_update"),
                                j, "progress")
    /\ task' = Goto(j, "ready")
    /\ running' = AfterBroadcast(TaskOf(j), j)
    /\ UNCHANGED <<pending_approvals, approval_data, calls, ncalls, returned, refused>>
    /\ UNCHANGED <<global_connections, cm_vars, submitted, monitor, pup, api_vars>>

\* With requires_approval the engine starts monitoring: "Started continuous
\* monitoring for approval period", 85.
StartMonitoring(j) ==
    /\ MayRun(TaskOf(j))
    /\ At(j, "ready")
    /\ jobs[j].request_data.require_human_approval
    /\ monitor' = start_continuous_monitoring(j)
    /\ progress_callback(j, 85)
    /\ task' = Goto(j, "monitoring")
    /\ running' = AfterBroadcast(TaskOf(j), j)
    /\ UNCHANGED <<pending_approvals, approval_data, calls, ncalls, returned, refused>>
    /\ UNCHANGED <<global_connections, cm_vars, submitted, job_screenshots, pup, api_vars>>

\* approval_callback up to its broadcast: the preview is stored, the job becomes
\* WAITING_FOR_APPROVAL and a fresh (unset) asyncio.Event is registered.
approval_callback_without_preview(j) ==
    /\ UNCHANGED approval_data
    /\ jobs' = [jobs EXCEPT ![j].status = WAITING_FOR_APPROVAL]
    /\ pending_approvals' = (j :> FALSE) @@ pending_approvals

approval_callback(j) ==
    /\ approval_data' = (j :> FormPreview(j)) @@ approval_data
    /\ jobs' = [jobs EXCEPT ![j].status = WAITING_FOR_APPROVAL]
    /\ pending_approvals' = (j :> FALSE) @@ pending_approvals

\* request_approval: the engine calls approval_callback, which broadcasts
\* "approval_required".
RequestApproval(j) ==
    /\ MayRun(TaskOf(j))
    /\ At(j, "monitoring")
    /\ approval_callback(j)
    /\ job_connections' = broadcast_job_update(job_connections, j, "approval_required")
    /\ task' = Goto(j, "gate_broadcast")
    /\ running' = AfterBroadcast(TaskOf(j), j)
    /\ UNCHANGED <<calls, ncalls, returned, refused>>
    /\ UNCHANGED <<global_connections, cm_vars, engine_vars, pup, api_vars>>

NoApprovalRequiredAsksAnyway(j) ==
    /\ MayRun(TaskOf(j))
    /\ At(j, "ready")
    /\ ~jobs[j].request_data.require_human_approval
    /\ progress_callback(j, 95)
    /\ task' = Goto(j, "monitoring")
    /\ running' = Nobody
    /\ UNCHANGED <<pending_approvals, approval_data, calls, ncalls, returned, refused>>
    /\ UNCHANGED <<global_connections, cm_vars, engine_vars, pup, api_vars>>

\* Without requires_approval the engine goes on to the submission (its sleep):
\* "No approval required, submitting", 95.
NoApprovalRequired(j) ==
    /\ MayRun(TaskOf(j))
    /\ At(j, "ready")
    /\ ~jobs[j].request_data.require_human_approval
    /\ progress_callback(j, 95)
    /\ task' = Goto(j, "submit")
    /\ running' = Nobody
    /\ UNCHANGED <<pending_approvals, approval_data, calls, ncalls, returned, refused>>
    /\ UNCHANGED <<global_connections, cm_vars, engine_vars, pup, api_vars>>

\* What approval_callback returns once the event is set: job.get("approved", False).
ReadDecision(j) == IF jobs[j].approved = Missing THEN PyBool(FALSE) ELSE jobs[j].approved

WaitForApprovalBlocking(j) ==
    /\ MayRun(TaskOf(j))
    /\ At(j, "gate_broadcast")
    /\ IF pending_approvals[j]
       THEN /\ task' = [task EXCEPT ![j].pc = "stop_monitoring",
                                    ![j].approved = ReadDecision(j)]
            /\ monitor' = stop_continuous_monitoring(j)
       ELSE /\ task' = Goto(j, "gate_wait")
            /\ UNCHANGED monitor
    /\ running' = IF pending_approvals[j] THEN Nobody ELSE TaskOf(j)
    /\ UNCHANGED <<jobs, pending_approvals, approval_data, job_connections, calls, ncalls, returned, refused>>
    /\ UNCHANGED <<global_connections, cm_vars, submitted, job_screenshots, pup, api_vars>>

\* "await approval_event.wait()": returns at once when the event is already set,
\* and suspends otherwise.  After the wait the callback reads the decision and the
\* engine suspends in stop_continuous_monitoring.
WaitForApproval(j) ==
    /\ MayRun(TaskOf(j))
    /\ At(j, "gate_broadcast")
    /\ IF pending_approvals[j]
       THEN /\ task' = [task EXCEPT ![j].pc = "stop_monitoring",
                                    ![j].approved = ReadDecision(j)]
            /\ monitor' = stop_continuous_monitoring(j)
       ELSE /\ task' = Goto(j, "gate_wait")
            /\ UNCHANGED monitor
    /\ running' = Nobody
    /\ UNCHANGED <<jobs, pending_approvals, approval_data, job_connections, calls, ncalls, returned, refused>>
    /\ UNCHANGED <<global_connections, cm_vars, submitted, job_screenshots, pup, api_vars>>

\* The suspended waiter runs again after the event was set.
ResumeFromGate(j) ==
    /\ LoopFree
    /\ At(j, "gate_wait")
    /\ pending_approvals[j]
    /\ task' = [task EXCEPT ![j].pc = "stop_monitoring", ![j].approved = ReadDecision(j)]
    /\ monitor' = stop_continuous_monitoring(j)
    /\ UNCHANGED <<jobs, pending_approvals, approval_data, job_connections, calls, ncalls, returned, refused, running>>
    /\ UNCHANGED <<global_connections, cm_vars, submitted, job_screenshots, pup, api_vars>>

\* stop_continuous_monitoring has returned, and the engine branches on the
\* decision: rejected ("Submission rejected by human
\* reviewer", 90) gives the rejection result, and the finally clause suspends in
\* cleanup; approved ("Approval received, submitting form", 95) goes on to the
\* submission.
AfterDecision(j) ==
    /\ LoopFree
    /\ At(j, "stop_monitoring")
    /\ MonitoringStopped(j)
    /\ IF task[j].approved = PyBool(TRUE)
       THEN /\ progress_callback(j, 95)
            /\ task' = Goto(j, "submit")
       ELSE /\ progress_callback(j, 90)
            /\ task' = [task EXCEPT ![j].pc = "cleanup", ![j].result = RejectedResult]
    /\ UNCHANGED <<pending_approvals, approval_data, calls, ncalls, returned, refused, running>>
    /\ UNCHANGED <<global_connections, cm_vars, engine_vars, pup, api_vars>>

\* The submission step ends ("Form submitted successfully", 100): the engine
\* returns success, through cleanup.
Submit(j) ==
    /\ LoopFree
    /\ At(j, "submit")
    /\ progress_callback(j, 100)
    /\ task' = [task EXCEPT ![j].pc = "cleanup", ![j].result = SuccessResult]
    /\ UNCHANGED <<pending_approvals, approval_data, calls, ncalls, returned, refused, running>>
    /\ UNCHANGED <<global_connections, cm_vars, engine_vars, pup, api_vars>>

\* "Update job with result": the status the engine's result gives the job.
ResultStatus(result) == IF Get(result, "success", FALSE) THEN COMPLETED ELSE FAILED

\* process_job_with_real_browser after the engine call returned.
RecordResultThenCleanupProgress(j) ==
    /\ MayRun(TaskOf(j))
    /\ At(j, "cleanup") \/ At(j, "record")
    /\ LET result == task[j].result
       IN IF ResultStatus(result) = COMPLETED
          THEN /\ jobs' = [jobs EXCEPT ![j].result = result, ![j].status = COMPLETED,
                                       ![j].progress_percentage = 98]
               /\ job_connections' =
                      broadcast_job_update(broadcast_job_update(job_connections, j, "completion"),
                                           j, "progress")
          ELSE /\ jobs' = [jobs EXCEPT ![j].result = result, ![j].status = FAILED,
                                       ![j].error = Get(result, "error", "Unknown error")]
               /\ job_connections' = broadcast_job_update(job_connections, j, "error")
    /\ task' = Goto(j, "finally")
    /\ running' = AfterBroadcast(TaskOf(j), j)
    /\ UNCHANGED <<pending_approvals, approval_data, calls, ncalls, returned, refused>>
    /\ UNCHANGED <<global_connections, cm_vars, engine_vars, pup, api_vars>>

RecordResult(j) ==
    /\ MayRun(TaskOf(j))
    /\ At(j, "cleanup") \/ At(j, "record")
    /\ LET result == task[j].result
       IN IF ResultStatus(result) = COMPLETED
          THEN /\ jobs' = [jobs EXCEPT ![j].result = result, ![j].status = COMPLETED,
                                       ![j].progress_percentage = 100]
               /\ job_connections' = broadcast_job_update(job_connections, j, "completion")
          ELSE /\ jobs' = [jobs EXCEPT ![j].result = result, ![j].status = FAILED,
                                       ![j].error = Get(result, "error", "Unknown error")]
               /\ job_connections' = broadcast_job_update(job_connections, j, "error")
    /\ task' = Goto(j, "finally")
    /\ running' = AfterBroadcast(TaskOf(j), j)
    /\ UNCHANGED <<pending_approvals, approval_data, calls, ncalls, returned, refused>>
    /\ UNCHANGED <<global_connections, cm_vars, engine_vars, pup, api_vars>>

\* The finally clause of process_job_with_real_browser.
ReleaseGateEventOnly(j) ==
    /\ pending_approvals' = Pop(pending_approvals, j)
    /\ UNCHANGED approval_data

ReleaseGateAll(j) ==
    /\ pending_approvals' = Empty
    /\ approval_data' = Empty

ReleaseGate(j) ==
    /\ pending_approvals' = Pop(pending_approvals, j)
    /\ approval_data' = Pop(approval_data, j)

FinallyPublishes(j) ==
    /\ MayRun(TaskOf(j))
    /\ At(j, "finally")
    /\ ReleaseGate(j)
    /\ job_connections' = broadcast_job_update(job_connections, j, "status_change")
    /\ task' = Goto(j, "done")
    /\ running' = Nobody
    /\ UNCHANGED <<jobs, calls, ncalls, returned, refused>>
    /\ UNCHANGED <<global_connections, cm_vars, engine_vars, pup, api_vars>>

Finally(j) ==
    /\ MayRun(TaskOf(j))
    /\ At(j, "finally")
    /\ ReleaseGate(j)
    /\ task' = Goto(j, "done")
    /\ running' = Nobody
    /\ UNCHANGED <<jobs, job_connections, calls, ncalls, returned, refused>>
    /\ UNCHANGED <<global_connections, cm_vars, engine_vars, pup, api_vars>>

\* The owning task is cancelled (the loop shuts down) while it is suspended inside
\* the engine's try block.  CancelledError is no Exception: it passes the engine's
\* handler, and the engine's finally clause suspends in cleanup, whose first call
\* is stop_continuous_monitoring.  A cancellation that arrives while the task
\* awaits the monitoring task in stop_continuous_monitoring changes nothing: the
\* "except asyncio.CancelledError: pass" there takes it.
Cancel(j) ==
    /\ LoopFree
    /\ task[j].pc \in {"filling", "gate_wait", "submit"}
    /\ task' = Goto(j, "unwinding")
    /\ monitor' = stop_continuous_monitoring(j)
    /\ UNCHANGED <<jobs, pending_approvals, approval_data, job_connections, calls, ncalls, returned, refused, running>>
    /\ UNCHANGED <<global_connections, cm_vars, submitted, job_screenshots, pup, api_vars>>

\* The monitoring task has ended and the browser is closed; the cancellation
\* leaves process_job_with_real_browser: its "except Exception" does not match,
\* its finally clause runs.
Unwind(j) ==
    /\ LoopFree
    /\ At(j, "unwinding")
    /\ MonitoringStopped(j)
    /\ ReleaseGate(j)
    /\ task' = Goto(j, "cancelled")
    /\ UNCHANGED <<jobs, job_connections, calls, ncalls, returned, refused, running>>
    /\ UNCHANGED <<global_connections, cm_vars, engine_vars, pup, api_vars>>

\* The owning task is cancelled while it is suspended in the engine's cleanup,
\* after the engine's result was computed: the cancellation leaves the engine's
\* finally clause and then process_job_with_real_browser, through its finally.
CancelInCleanup(j) ==
    /\ LoopFree
    /\ At(j, "cleanup")
    /\ ReleaseGate(j)
    /\ task' = Goto(j, "cancelled")
    /\ UNCHANGED <<jobs, job_connections, calls, ncalls, returned, refused, running>>
    /\ UNCHANGED <<global_connections, cm_vars, engine_vars, pup, api_vars>>

\* ------------------------------------------------------------ approve_job
\* The reason an analyst gives with a decision.
ReasonOf(approved) == IF approved THEN "ok" ELSE "bad"

\* "Set approval decision" and the status that goes with it.
SetDecision(job, approved, reason, analyst_name) ==
    [job EXCEPT !.approved = PyBool(approved),
                !.approval_reason = reason,
                !.approved_by = analyst_name,
                !.status = IF approved THEN APPROVED ELSE REJECTED]

\* The two early returns of approve_job: unknown job, or no gate entry.
NotPendingKnownOnly(job_id) == job_id \notin DOMAIN jobs

NotPending(job_id) == job_id \notin DOMAIN jobs \/ job_id \notin DOMAIN pending_approvals

\* "Signal the approval event".
SignalEvent(job_id) ==
    IF job_id \in DOMAIN pending_approvals
    THEN [pending_approvals EXCEPT ![job_id] = TRUE]
    ELSE pending_approvals

\* What the server looked like to the caller of approve_job when the call began.
Seen(job_id) ==
    [status |-> IF job_id \in DOMAIN jobs THEN jobs[job_id].status ELSE "unknown",
     gate |-> job_id \in DOMAIN pending_approvals]

\* approve_job returns True to its caller.
ReturnTrue(call) == [returned EXCEPT ![call.job_id] = Append(@, call)]

\* approve_job(job_id, approved, reason, analyst_name) up to its first suspension:
\* to the return of False, or through the decision and the broadcast; with no
\* websocket connected the broadcast does not suspend and the call runs to its end.
approve_job(job_id, approved) ==
    /\ Serving
    /\ ncalls < MaxCalls
    /\ ncalls' = ncalls + 1
    /\ LET reason == ReasonOf(approved)
           analyst_name == Analysts[ncalls + 1]
           call == [job_id |-> job_id, approved |-> approved, reason |-> reason,
                    analyst_name |-> analyst_name, seen |-> Seen(job_id)]
       IN IF NotPending(job_id)
          THEN /\ refused' = refused \cup {Seen(job_id)}
               /\ UNCHANGED <<jobs, pending_approvals, job_connections, calls, returned>>
          ELSE /\ jobs' = [jobs EXCEPT ![job_id] = SetDecision(@, approved, reason, analyst_name)]
               /\ job_connections' =
                      broadcast_job_update(job_connections, job_id, "approval_received")
               /\ IF Connected(job_id)
                  THEN /\ calls' = calls \cup {call}
                       /\ UNCHANGED <<pending_approvals, returned>>
                  ELSE /\ pending_approvals' = SignalEvent(job_id)
                       /\ returned' = ReturnTrue(call)
                       /\ UNCHANGED calls
               /\ UNCHANGED refused
    /\ UNCHANGED <<approval_data, task, running>>
    /\ UNCHANGED <<global_connections, cm_vars, engine_vars, pup, api_vars>>

\* approve_job after its broadcast: the event is set and True returned.
approve_job_signal(call) ==
    /\ LoopFree
    /\ call \in calls
    /\ pending_approvals' = SignalEvent(call.job_id)
    /\ returned' = ReturnTrue(call)
    /\ calls' = calls \ {call}
    /\ UNCHANGED <<jobs, approval_data, job_connections, task, ncalls, refused, running>>
    /\ UNCHANGED <<global_connections, cm_vars, engine_vars, pup, api_vars>>

\* --------------------------------------------------- read operations
\* The HTTP handlers that read the managers, and the screenshot refresh.  reply
\* is the response of the last of them: the operation, the job id of its path,
\* the status code and the body.
NoReply == [op |-> "none", job_id |-> 0, code |-> 0, body |-> None]

Response(op, job_id, code, body) == [op |-> op, job_id |-> job_id, code |-> code, body |-> body]

\* raise HTTPException(status_code=code, detail=detail).
HTTPException(op, job_id, code, detail) == Response(op, job_id, code, [detail |-> detail])

\* Everything a read operation leaves alone: all but reply.
read_frame == <<jobs, pending_approvals, approval_data, job_connections, task, calls, ncalls,
                returned, refused, running, global_connections, cm_vars, engine_vars, pup,
                manager>>

\* get_pending_approvals(): the keys of pending_approvals.
get_pending_approvals == DOMAIN pending_approvals

\* self.approval_data.get(job_id, {}): the empty dict when no preview is stored.
NoPreview == Empty

\* len([j for j in all_jobs if j["status"] == status]).
CountStatus(status) == Cardinality({j \in DOMAIN jobs : jobs[j].status = status})

\* GET /api/v1/jobs/{job_id}: the job record, or 404.
get_job_status(job_id) ==
    /\ Serving
    /\ reply' = IF job_id \notin DOMAIN jobs
                THEN HTTPException("get_job_status", job_id, 404, "Job not found")
                ELSE Response("get_job_status", job_id, 200, jobs[job_id])
    /\ UNCHANGED read_frame

\* GET /api/v1/approval/pending: what get_pending_approvals() returns.
get_pending_approvals_endpoint ==
    /\ Serving
    /\ reply' = Response("get_pending_approvals", 0, 200, [pending |-> get_pending_approvals])
    /\ UNCHANGED read_frame

\* GET /api/v1/approval/{job_id}/preview: the stored preview with the job's
\* status and progress, or 404 for an unknown job.
get_approval_preview(job_id) ==
    /\ Serving
    /\ reply' = IF job_id \notin DOMAIN jobs
                THEN HTTPException("get_approval_preview", job_id, 404, "Job not found")
                ELSE Response("get_approval_preview", job_id, 200,
                              [status |-> jobs[job_id].status,
                               form_preview |-> Get(approval_data, job_id, NoPreview),
                               progress_percentage |-> jobs[job_id].progress_percentage])
    /\ UNCHANGED read_frame

\* The body of GET /api/v1/approval/stats: the jobs counted by their present
\* status.
ApprovalStats ==
    LET pending == CountStatus(WAITING_FOR_APPROVAL)
        approved == CountStatus(APPROVED)
        rejected == CountStatus(REJECTED)
    IN [pending_approvals |-> pending,
        approved_jobs |-> approved,
        rejected_jobs |-> rejected,
        approval_rate_percentage |->
            IF approved + rejected > 0 THEN (approved * 100) \div (approved + rejected) ELSE 0]

get_approval_stats ==
    /\ Serving
    /\ reply' = Response("get_approval_stats", 0, 200, ApprovalStats)
    /\ UNCHANGED read_frame

\* GET /api/v1/jobs/{job_id}/screenshot: the latest stored screenshot, or 404
\* for an unknown job and for a job without a stored screenshot.
get_job_screenshot(job_id) ==
    /\ Serving
    /\ reply' = IF job_id \notin DOMAIN jobs
                THEN HTTPException("get_job_screenshot", job_id, 404, "Job not found")
                ELSE IF job_id \notin DOMAIN job_screenshots
                THEN HTTPException("get_job_screenshot", job_id, 404,
                                   "No screenshot available for this job")
                ELSE Response("get_job_screenshot", job_id, 200, job_screenshots[job_id])
    /\ UNCHANGED read_frame

\* "Check if job is active".
ActiveAnyStatus(job) == TRUE

Active(job) == job.status \in {RUNNING, WAITING_FOR_APPROVAL}

\* POST /api/v1/jobs/{job_id}/screenshot/refresh: 404 for an unknown job, 400
\* for a job that is not active; otherwise the "screenshot_refresh_requested"
\* broadcast, after which the handler returns its response (when the broadcast
\* suspends, the handler writes nothing after it resumes).
force_screenshot_refresh(job_id) ==
    /\ Serving
    /\ IF job_id \notin DOMAIN jobs
       THEN /\ reply' = HTTPException("force_screenshot_refresh", job_id, 404, "Job not found")
            /\ UNCHANGED job_connections
       ELSE IF ~Active(jobs[job_id])
       THEN /\ reply' = HTTPException("force_screenshot_refresh", job_id, 400,
                                      "Job is not active - cannot refresh screenshot")
            /\ UNCHANGED job_connections
       ELSE /\ job_connections' =
                   broadcast_job_update(job_connections, job_id, "screenshot_refresh_requested")
            /\ reply' = Response("force_screenshot_refresh", job_id, 200,
                                 [refresh_requested |-> TRUE])
    /\ UNCHANGED <<jobs, pending_approvals, approval_data, task, calls, ncalls, returned,
                   refused, running, global_connections, cm_vars, engine_vars, pup, manager>>

\* The body of GET /health.
Health ==
    [status |-> "healthy",
     active_jobs |-> CountStatus(RUNNING),
     pending_approvals |-> Cardinality(DOMAIN pending_approvals)]

health_check ==
    /\ Serving
    /\ reply' = Response("health_check", 0, 200, Health)
    /\ UNCHANGED read_frame

\* The read operations and the refresh.
ReadStep ==
    \/ \E job_id \in RequestIds : get_job_status(job_id)
    \/ get_pending_approvals_endpoint
    \/ \E job_id \in RequestIds : get_approval_preview(job_id)
    \/ get_approval_stats
    \/ \E job_id \in RequestIds : get_job_screenshot(job_id)
    \/ \E job_id \in RequestIds : force_screenshot_refresh(job_id)
    \/ health_check

\* ------------------------------------------------ PuppeteerServerManager
\* The manager of one agent.  process: self.process ("none": None; "running": a
\* Popen whose process runs; "exited": a Popen whose process has exited);
\* answering: who answers GET {server_url}/status ("nobody", "other": a server
\* this manager did not spawn, "spawned": the process it spawned); pc, polls:
\* start_server's position and the iterations of its wait loop that found
\* nothing; result: what the last start_server or stop_server returned.
NoManager ==
    [process |-> "none", answering |-> "nobody", pc |-> "idle", polls |-> 0, result |-> None]

\* "max_retries = 30".
max_retries == 30

Returned(m, success, message) ==
    [m EXCEPT !.pc = "idle", !.polls = 0, !.result = [success |-> success, message |-> message]]

\* What start_server finds before its wait loop.
StartHows == {"already running", "no dependencies", "no node", "popen raises", "spawned"}

\* start_server up to its wait loop: a server that already answers gives success
\* without a process; missing dependencies, a missing node and a failing Popen
\* give failure without a process; otherwise the process is spawned.
start_server(m, how) ==
    IF how = "already running"
    THEN Returned([m EXCEPT !.answering = "other"], TRUE, "Server already running")
    ELSE IF how = "no dependencies" THEN Returned(m, FALSE, "Failed to ensure dependencies")
    ELSE IF how = "no node" THEN Returned(m, FALSE, "Node.js not found")
    ELSE IF how = "popen raises" THEN Returned(m, FALSE, "Failed to start server")
    ELSE [m EXCEPT !.process = "running", !.pc = "polling", !.polls = 0]

\* What one iteration of the wait loop finds after its sleep.
Polls == {"died", "answers", "failed", "waiting"}

\* One iteration of "for i in range(max_retries)": the process has exited
\* (first poll()), the server answers, the process has exited (second poll()),
\* or nothing yet.
wait_for_server(m, found) ==
    IF found = "died"
    THEN Returned([m EXCEPT !.process = "exited"], FALSE, "Server process died")
    ELSE IF found = "answers"
    THEN Returned([m EXCEPT !.answering = "spawned"], TRUE, "Server started successfully")
    ELSE IF found = "failed"
    THEN Returned([m EXCEPT !.process = "exited"], FALSE, "Server process failed to start")
    ELSE [m EXCEPT !.polls = @ + 1]

\* The wait loop is exhausted: the return that follows it; the process it
\* spawned is left as it is.
wait_exhausted(m) == Returned(m, FALSE, "Server failed to start within timeout")

\* stop_server: with a process, terminate() and wait() (kill() after 5 s), after
\* which self.process is None; an exception of these calls gives failure and
\* leaves self.process.  Without a process: "Server was not running".
stop_server(m, ok) ==
    IF m.process = "none" THEN Returned(m, TRUE, "Server was not running")
    ELSE IF ok
    THEN Returned([m EXCEPT !.process = "none",
                            !.answering = IF @ = "spawned" THEN "nobody" ELSE @],
                  TRUE, "Server stopped successfully")
    ELSE Returned(m, FALSE, "Failed to stop server")

\* ------------------------------------------------------- Puppeteer engine
\* One call of PuppeteerBrowserAgent.fill_generic_form_puppeteer, as the owning
\* task (or a test) makes it, with callbacks that record what the engine sends.
\* pc: the position in the call; progress: the updates send_progress has sent;
\* timed_out, failed: the sub-steps whose asyncio.wait_for raised TimeoutError, or
\* whose agent.run raised another exception; decision: what request_approval
\* returned; result: what the call returned.
NoCall ==
    [pc |-> "idle", requires_approval |-> FALSE, uploaded_files |-> FALSE,
     manage_server |-> FALSE, progress |-> <<>>, timed_out |-> {}, failed |-> {},
     decision |-> Missing, result |-> None]

\* Everything but pup.
server_vars == <<jobs, pending_approvals, approval_data, job_connections, task, calls,
                 ncalls, returned, refused, running, global_connections, engine_vars,
                 cm_vars, reply>>

\* How an awaited agent.run under asyncio.wait_for ends.
Outcomes == {"done", "timeout", "error"}

\* send_progress(message, percentage), the message shortened to its kind.
send_progress(call, message, percentage) ==
    [call EXCEPT !.progress = Append(@, [message |-> message, percentage |-> percentage])]

PupInitFailedResult == [success |-> FALSE, error |-> "Failed to initialize browser-use with CDP"]
PupErrorResult == [success |-> FALSE, error |-> "Error during browser-use form filling"]
PupSuccessResult ==
    [success |-> TRUE, message |-> "form submitted successfully via Browser-Use with CDP"]

\* The call begins: "Starting browser-use automation with CDP", 10.
PupCall(requires_approval, uploaded_files, manage_server) ==
    /\ pup.pc = "idle"
    /\ pup' = send_progress([pup EXCEPT !.pc = "initialize",
                                       !.requires_approval = requires_approval,
                                       !.uploaded_files = uploaded_files,
                                       !.manage_server = manage_server],
                            "starting", 10)
    /\ UNCHANGED <<server_vars, manager>>

\* initialize() with a managed server: "Starting managed Puppeteer server", 3,
\* and start_server up to its wait loop.
PupStartServer(how) ==
    /\ pup.pc = "initialize"
    /\ pup.manage_server
    /\ pup' = send_progress([pup EXCEPT !.pc = "start_server"], "starting server", 3)
    /\ manager' = start_server(manager, how)
    /\ UNCHANGED server_vars

\* An iteration of start_server's wait loop.
PupWaitForServer(found) ==
    /\ pup.pc = "start_server"
    /\ manager.pc = "polling"
    /\ manager.polls < max_retries
    /\ manager' = wait_for_server(manager, found)
    /\ UNCHANGED <<server_vars, pup>>

\* The wait loop has run max_retries times.
PupWaitExhausted ==
    /\ pup.pc = "start_server"
    /\ manager.pc = "polling"
    /\ manager.polls = max_retries
    /\ manager' = wait_exhausted(manager)
    /\ UNCHANGED <<server_vars, pup>>

\* start_server has returned: "Puppeteer server started successfully", 7, and
\* initialize goes on to the CDP endpoint; or "Failed to start Puppeteer
\* server", 0, and initialize returns False with self.browser still None, so
\* that the call returns the failure result and its finally clause skips
\* cleanup.
PupServerResult ==
    /\ pup.pc = "start_server"
    /\ manager.pc = "idle"
    /\ pup' = IF manager.result.success
              THEN send_progress([pup EXCEPT !.pc = "connect"], "server started", 7)
              ELSE send_progress([pup EXCEPT !.pc = "returned",
                                            !.result = PupInitFailedResult],
                                 "failed to start server", 0)
    /\ UNCHANGED <<server_vars, manager>>

\* initialize() raises after "self.browser = Browser(...)" (the LLM or the Agent
\* cannot be built): its update is 0, it returns False, and the finally clause
\* of the call finds a browser and runs cleanup.
PupInitializeFailsWithBrowser ==
    /\ pup.pc = "connect" \/ (pup.pc = "initialize" /\ ~pup.manage_server)
    /\ pup' = send_progress([pup EXCEPT !.pc = "cleanup", !.result = PupInitFailedResult],
                            "failed to initialize", 0)
    /\ UNCHANGED <<server_vars, manager>>

\* initialize() returns True (its last update is 15) and the engine goes on to
\* "Navigating to target URL", 20; or it returns False (its last update is 0) and
\* the call returns the failure result.
PupInitialize(ok) ==
    /\ pup.pc = "connect" \/ (pup.pc = "initialize" /\ ~pup.manage_server)
    /\ pup' = IF ok
              THEN send_progress(send_progress([pup EXCEPT !.pc = "navigate"],
                                               "initialized", 15),
                                 "navigating", 20)
              ELSE send_progress([pup EXCEPT !.pc = "returned",
                                            !.result = PupInitFailedResult],
                                 "failed to initialize", 0)
    /\ UNCHANGED <<server_vars, manager>>

\* The page is loaded: "Analyzing page structure", 30, and "AI agent filling form
\* fields", 40.
PupNavigate ==
    /\ pup.pc = "navigate"
    /\ pup' = send_progress(send_progress([pup EXCEPT !.pc = "fill"], "analyzing", 30),
                            "filling", 40)
    /\ UNCHANGED <<server_vars, manager>>

\* An exception outside the guarded sub-steps (the navigation raises): the outer
\* "except Exception" reports it with percentage 0 and returns the error result,
\* through cleanup.
PupRaises ==
    /\ pup.pc = "navigate"
    /\ pup' = send_progress([pup EXCEPT !.pc = "cleanup", !.result = PupErrorResult],
                            "error", 0)
    /\ UNCHANGED <<server_vars, manager>>

\* The handlers of a guarded sub-step: the update sent for each outcome
\* (on_timeout: what the update says when wait_for raised TimeoutError).
AfterSubStepAborts(call, step, outcome, on_timeout, percentage, next) ==
    IF outcome = "done"
    THEN send_progress([call EXCEPT !.pc = next], step \o " done", percentage)
    ELSE IF outcome = "timeout"
    THEN [call EXCEPT !.pc = "cleanup", !.timed_out = @ \cup {step},
                      !.result = PupErrorResult]
    ELSE send_progress([call EXCEPT !.pc = next, !.failed = @ \cup {step}],
                       step \o " error", percentage)

AfterSubStep(call, step, outcome, on_timeout, percentage, next) ==
    IF outcome = "done"
    THEN send_progress([call EXCEPT !.pc = next], step \o " done", percentage)
    ELSE IF outcome = "timeout"
    THEN send_progress([call EXCEPT !.pc = next, !.timed_out = @ \cup {step}],
                       step \o on_timeout, percentage)
    ELSE send_progress([call EXCEPT !.pc = next, !.failed = @ \cup {step}],
                       step \o " error", percentage)

\* "await asyncio.wait_for(self.agent.run(max_steps=12), timeout=90)" and its
\* handlers: each of them sends an update with percentage 60 and goes on.
PupFill(outcome) ==
    /\ pup.pc = "fill"
    /\ pup' = AfterSubStep(pup, "fill", outcome, " timed out", 60,
                           IF pup.uploaded_files THEN "upload" ELSE "ready")
    /\ UNCHANGED <<server_vars, manager>>

\* With uploaded files: "Processing ... file(s) for upload", 65, then
\* "await asyncio.wait_for(self.agent.run(max_steps=5), timeout=30)"; its only
\* handler is "except Exception", which takes TimeoutError too and sends "File
\* upload error", 75.
PupUpload(outcome) ==
    /\ pup.pc = "upload"
    /\ pup' = AfterSubStep(send_progress(pup, "processing files", 65), "upload", outcome,
                           " error", 75, "ready")
    /\ UNCHANGED <<server_vars, manager>>

\* "Form filling completed", 85, and "Form ready for human approval", 90; then
\* the monitoring starts (91) and approval is requested, or "No approval
\* required, submitting", 95.
PupReady ==
    /\ pup.pc = "ready"
    /\ LET ready == send_progress(send_progress(pup, "completed", 85), "ready", 90)
       IN pup' = IF pup.requires_approval
                 THEN send_progress([ready EXCEPT !.pc = "approval"], "monitoring", 91)
                 ELSE send_progress([ready EXCEPT !.pc = "submit"], "no approval", 95)
    /\ UNCHANGED <<server_vars, manager>>

\* request_approval returns: rejected ("Submission rejected by human reviewer",
\* 95) ends the call with the rejection result; approved ("Approval received,
\* submitting form", 95) goes on to the submission.
PupApproval(approved) ==
    /\ pup.pc = "approval"
    /\ pup' = IF approved
              THEN send_progress([pup EXCEPT !.pc = "submit", !.decision = PyBool(TRUE)],
                                 "approved", 95)
              ELSE send_progress([pup EXCEPT !.pc = "cleanup", !.decision = PyBool(FALSE),
                                            !.result = RejectedResult],
                                 "rejected", 95)
    /\ UNCHANGED <<server_vars, manager>>

\* "await asyncio.wait_for(self.agent.run(max_steps=5), timeout=30)" for the
\* submission: TimeoutError and Exception are handled with an update of 100, and
\* a submission that ended sends nothing here.
PupSubmit(outcome) ==
    /\ pup.pc = "submit"
    /\ pup' = IF outcome = "done" THEN [pup EXCEPT !.pc = "submitted"]
              ELSE AfterSubStep(pup, "submit", outcome, " timed out", 100, "submitted")
    /\ UNCHANGED <<server_vars, manager>>

\* "Form submitted successfully", 100, and the success result.
PupReturnSuccess ==
    /\ pup.pc = "submitted"
    /\ pup' = send_progress([pup EXCEPT !.pc = "cleanup", !.result = PupSuccessResult],
                            "submitted", 100)
    /\ UNCHANGED <<server_vars, manager>>

\* The finally clause: cleanup(), which with a managed server sends "Stopping
\* managed Puppeteer server", 95, and "Puppeteer server stopped", 98, when the
\* server stopped.
PupCleanup(stopped) ==
    /\ pup.pc = "cleanup"
    /\ LET call == [pup EXCEPT !.pc = "returned"]
           stop == stop_server(manager, stopped)
       IN IF ~pup.manage_server
          THEN pup' = call /\ UNCHANGED manager
          ELSE /\ manager' = stop
               /\ pup' = IF stop.result.success
                         THEN send_progress(send_progress(call, "stopping server", 95),
                                            "server stopped", 98)
                         ELSE send_progress(call, "stopping server", 95)
    /\ UNCHANGED server_vars

PuppeteerNext ==
    \/ \E requires_approval, uploaded_files, manage_server \in BOOLEAN :
           PupCall(requires_approval, uploaded_files, manage_server)
    \/ \E how \in StartHows : PupStartServer(how)
    \/ \E found \in Polls : PupWaitForServer(found)
    \/ PupWaitExhausted
    \/ PupServerResult
    \/ \E ok \in BOOLEAN : PupInitialize(ok)
    \/ PupInitializeFailsWithBrowser
    \/ PupNavigate
    \/ PupRaises
    \/ \E outcome \in Outcomes : PupFill(outcome)
    \/ \E outcome \in Outcomes : PupUpload(outcome)
    \/ PupReady
    \/ \E approved \in BOOLEAN : PupApproval(approved)
    \/ \E outcome \in Outcomes : PupSubmit(outcome)
    \/ PupReturnSuccess
    \/ \E stopped \in BOOLEAN : PupCleanup(stopped)

\* ---------------------------------------------------------- specification
\* The state after construction, with an owning task to come for each of ids.
InitWith(ids) ==
    /\ jobs = Empty
    /\ pending_approvals = Empty
    /\ approval_data = Empty
    /\ job_connections = Empty
    /\ task = [j \in ids |-> NoTask]
    /\ calls = {}
    /\ ncalls = 0
    /\ returned = [job_id \in RequestIds |-> <<>>]
    /\ refused = {}
    /\ running = Nobody
    /\ global_connections = Empty
    /\ submitted = Empty
    /\ job_screenshots = Empty
    /\ monitor = [j \in ids |-> NoMonitor]
    /\ pup = NoCall
    /\ reply = NoReply
    /\ manager = NoManager
    /\ job_sockets = Empty
    /\ global_sockets = <<>>
    /\ sockets = Empty
    /\ broadcasts = Empty
    /\ published = <<>>
    /\ raised = FALSE

Init == InitWith(JobIds)

Next ==
    \/ \E body \in Bodies : submit_form_filling_job(body)
    \/ \E j \in JobIds : connect_job(j)
    \/ \E j \in JobIds : disconnect_job(j)
    \/ \E ws \in GlobalSockets : connect_global(ws)
    \/ \E ws \in GlobalSockets : disconnect_global(ws)
    \/ \E j \in JobIds : TaskStart(j)
    \/ \E j \in JobIds : InvokeEngine(j)
    \/ \E j \in JobIds : HandleException(j)
    \/ \E j \in JobIds : InitializeOk(j)
    \/ \E j \in JobIds : Navigate(j)
    \/ \E j \in JobIds : InitializeFails(j)
    \/ \E j \in JobIds : FillingRaises(j)
    \/ \E j \in JobIds : FormReady(j)
    \/ \E j \in JobIds : StartMonitoring(j)
    \/ \E j \in JobIds : continuous_screenshot_loop(j)
    \/ \E j \in JobIds : MonitoringTaskEnds(j)
    \/ \E j \in JobIds : RequestApproval(j)
    \/ \E j \in JobIds : NoApprovalRequired(j)
    \/ \E j \in JobIds : WaitForApproval(j)
    \/ \E j \in JobIds : ResumeFromGate(j)
    \/ \E j \in JobIds : AfterDecision(j)
    \/ \E j \in JobIds : Submit(j)
    \/ \E j \in JobIds : RecordResult(j)
    \/ \E j \in JobIds : Finally(j)
    \/ \E j \in JobIds : Cancel(j)
    \/ \E j \in JobIds : Unwind(j)
    \/ \E j \in JobIds : CancelInCleanup(j)
    \/ \E job_id \in RequestIds, approved \in BOOLEAN : approve_job(job_id, approved)
    \/ \E call \in calls : approve_job_signal(call)

Spec == Init /\ [][Next]_vars

\* The steps the owning task of job j takes by itself once the loop runs it and
\* the operation it awaits (a sleep, the navigation, the browser's close) ends.
\* The end of the cancelled monitoring task, which the owning task awaits, is
\* among them.  Not among them: the exceptions, the cancellation, and the wake-up at the gate,
\* which needs an analyst.
TaskStep(j) ==
    \/ TaskStart(j)
    \/ InvokeEngine(j)
    \/ InitializeOk(j)
    \/ Navigate(j)
    \/ FormReady(j)
    \/ StartMonitoring(j)
    \/ RequestApproval(j)
    \/ NoApprovalRequired(j)
    \/ WaitForApproval(j)
    \/ ResumeFromGate(j)
    \/ AfterDecision(j)
    \/ Submit(j)
    \/ RecordResult(j)
    \/ Finally(j)
    \/ MonitoringTaskEnds(j)

\* The event loop runs every task that is ready, and awaited operations end.
FairSpec == Spec /\ \A j \in JobIds : WF_vars(TaskStep(j))

\* A call of the Puppeteer engine on its own.
PuppeteerSpec == Init /\ [][PuppeteerNext]_vars

\* ------------------------------------------------------------- two jobs
\* Two jobs side by side while the server keeps running: submissions without an
\* engine selector, one websocket per job, the analysts' calls, and every step of
\* the two owning tasks and of their monitoring tasks.
PairJobs == {1, 2}
\* The approve_job calls that are followed next to two jobs.
MaxPairCalls == 1
PairBodies == {body \in Bodies : body.browser_engine = Missing}

PairInit == InitWith(PairJobs)

PairNext ==
    \/ \E body \in PairBodies : submit_form_filling_job(body)
    \/ \E j \in PairJobs : connect_job(j)
    \/ \E j \in PairJobs : TaskStart(j)
    \/ \E j \in PairJobs : InvokeEngine(j)
    \/ \E j \in PairJobs : HandleException(j)
    \/ \E j \in PairJobs : InitializeOk(j)
    \/ \E j \in PairJobs : Navigate(j)
    \/ \E j \in PairJobs : InitializeFails(j)
    \/ \E j \in PairJobs : FillingRaises(j)
    \/ \E j \in PairJobs : FormReady(j)
    \/ \E j \in PairJobs : StartMonitoring(j)
    \/ \E j \in PairJobs : continuous_screenshot_loop(j)
    \/ \E j \in PairJobs : MonitoringTaskEnds(j)
    \/ \E j \in PairJobs : RequestApproval(j)
    \/ \E j \in PairJobs : NoApprovalRequired(j)
    \/ \E j \in PairJobs : WaitForApproval(j)
    \/ \E j \in PairJobs : ResumeFromGate(j)
    \/ \E j \in PairJobs : AfterDecision(j)
    \/ \E j \in PairJobs : Submit(j)
    \/ \E j \in PairJobs : RecordResult(j)
    \/ \E j \in PairJobs : Finally(j)
    \/ \E job_id \in PairJobs, approved \in BOOLEAN :
           ncalls < MaxPairCalls /\ approve_job(job_id, approved)
    \/ \E call \in calls : approve_job_signal(call)

PairSpec == PairInit /\ [][PairNext]_vars

\* ------------------------------------------------- the HTTP interface
\* One job while the server keeps running, with the clients' read operations
\* and screenshot refreshes next to the submission, the job's websocket, the
\* analysts' calls and every step of the owning task and its monitoring task.
\* The accepted refreshes of one job that are followed.
MaxRefreshes == 1

\* The refresh requests the websocket of job_id has received.
Refreshes(job_id) ==
    IF job_id \in DOMAIN job_connections
    THEN Cardinality({i \in 1..Len(job_connections[job_id]) :
                         job_connections[job_id][i] = "screenshot_refresh_requested"})
    ELSE 0

ApiNext ==
    \/ \E body \in PairBodies : submit_form_filling_job(body)
    \/ \E j \in JobIds : connect_job(j)
    \/ \E j \in JobIds : TaskStart(j)
    \/ \E j \in JobIds : InvokeEngine(j)
    \/ \E j \in JobIds : HandleException(j)
    \/ \E j \in JobIds : InitializeOk(j)
    \/ \E j \in JobIds : Navigate(j)
    \/ \E j \in JobIds : InitializeFails(j)
    \/ \E j \in JobIds : FillingRaises(j)
    \/ \E j \in JobIds : FormReady(j)
    \/ \E j \in JobIds : StartMonitoring(j)
    \/ \E j \in JobIds : continuous_screenshot_loop(j)
    \/ \E j \in JobIds : MonitoringTaskEnds(j)
    \/ \E j \in JobIds : RequestApproval(j)
    \/ \E j \in JobIds : NoApprovalRequired(j)
    \/ \E j \in JobIds : WaitForApproval(j)
    \/ \E j \in JobIds : ResumeFromGate(j)
    \/ \E j \in JobIds : AfterDecision(j)
    \/ \E j \in JobIds : Submit(j)
    \/ \E j \in JobIds : RecordResult(j)
    \/ \E j \in JobIds : Finally(j)
    \/ \E j \in JobIds : Cancel(j)
    \/ \E j \in JobIds : Unwind(j)
    \/ \E j \in JobIds : CancelInCleanup(j)
    \/ \E job_id \in RequestIds, approved \in BOOLEAN :
           ncalls < MaxPairCalls /\ approve_job(job_id, approved)
    \/ \E call \in calls : approve_job_signal(call)
    \/ \E job_id \in RequestIds : get_job_status(job_id)
    \/ get_pending_approvals_endpoint
    \/ \E job_id \in RequestIds : get_approval_preview(job_id)
    \/ get_approval_stats
    \/ \E job_id \in RequestIds : get_job_screenshot(job_id)
    \/ \E job_id \in RequestIds :
           Refreshes(job_id) < MaxRefreshes /\ force_screenshot_refresh(job_id)
    \/ health_check

ApiSpec == Init /\ [][ApiNext]_vars

\* ----------------------------------------- ConnectionManager, list level
\* The websockets that may ever connect; each connection is a new websocket.
WebSockets == 1..MaxSockets

\* The elements of a Python list.
Elems(list) == {list[i] : i \in 1..Len(list)}

\* list.remove(x) for x in the list: the list without the first x.
Remove(list, x) ==
    LET first == CHOOSE i \in 1..Len(list) : list[i] = x /\ \A k \in 1..(i - 1) : list[k] # x
    IN SubSeq(list, 1, first - 1) \o SubSeq(list, first + 1, Len(list))

\* The coroutines that publish: the owning task of a job (process_job_with_real_browser
\* and the callbacks the engine awaits), the engine's screenshot-monitoring task,
\* an approve_job request handler, and a caller of broadcast_global_update.
\* The global channel, where a job id stands for a job's channel.
Global == 0

\* The job whose coroutines publish; websockets subscribe to any id in RequestIds.
PublishingJobs == JobIds
JobPublishers == [role : {"task", "monitor", "approve_job"}, job_id : PublishingJobs]
SystemPublisher == [role |-> "system", job_id |-> Global]
Publishers == JobPublishers \cup {SystemPublisher}

\* The update a broadcast builds; n numbers the broadcasts in the order they start.
JobUpdate(publisher, n) ==
    [type |-> "job_update", job_id |-> publisher.job_id, by |-> publisher.role, n |-> n]
SystemUpdate(n) == [type |-> "system", job_id |-> Global, by |-> "system", n |-> n]

\* The list a broadcast iterates: the live list object, not a copy.
EveryList(update) ==
    LET RECURSIVE Concat(_)
        Concat(ids) == IF ids = {} THEN <<>>
                       ELSE LET id == CHOOSE x \in ids : \A y \in ids : x <= y
                            IN job_sockets[id] \o Concat(ids \ {id})
    IN Concat(DOMAIN job_sockets) \o global_sockets

ListOf(update) ==
    IF update.type = "system" THEN global_sockets
    ELSE IF update.job_id \in DOMAIN job_sockets THEN job_sockets[update.job_id]
    ELSE <<>>

\* websocket_job_endpoint: the websocket is accepted and connect_job appends it to
\* the list of job_id, creating the list on first use.  since: the number of
\* broadcasts that had started when the websocket connected.
JobEndpointConnect(ws, job_id) ==
    /\ ws \notin DOMAIN sockets
    /\ sockets' = sockets @@ (ws :> [open |-> TRUE, channel |-> job_id,
                                     since |-> Len(published), received |-> <<>>])
    /\ job_sockets' = IF job_id \in DOMAIN job_sockets
                      THEN [job_sockets EXCEPT ![job_id] = Append(@, ws)]
                      ELSE job_sockets @@ (job_id :> <<ws>>)
    /\ UNCHANGED <<global_sockets, broadcasts, published, raised, lifecycle_vars>>

\* websocket_global_endpoint: the websocket is accepted and connect_global appends it.
GlobalEndpointConnect(ws) ==
    /\ ws \notin DOMAIN sockets
    /\ sockets' = sockets @@ (ws :> [open |-> TRUE, channel |-> Global,
                                     since |-> Len(published), received |-> <<>>])
    /\ global_sockets' = Append(global_sockets, ws)
    /\ UNCHANGED <<job_sockets, broadcasts, published, raised, lifecycle_vars>>

\* The client goes away: from now on send_text on the websocket raises, and the
\* endpoint's receive_text will raise.
ClientCloses(ws) ==
    /\ ws \in DOMAIN sockets
    /\ sockets[ws].open
    /\ sockets' = [sockets EXCEPT ![ws].open = FALSE]
    /\ UNCHANGED <<job_sockets, global_sockets, broadcasts, published, raised,
                   lifecycle_vars>>

\* A websocket whose endpoint has ended: nobody reads what it received any more.
Gone == [open |-> FALSE, channel |-> Global, since |-> 0, received |-> <<>>]

\* A websocket leaves a list: it has not stayed registered for the whole of any
\* broadcast that is in progress.
Left(ws) == [p \in DOMAIN broadcasts |-> [broadcasts[p] EXCEPT !.stayed = @ \ {ws}]]

\* The except clause of websocket_job_endpoint: disconnect_job(websocket, job_id)
\* for the websocket the endpoint registered.
JobEndpointDisconnect(ws) ==
    /\ ws \in DOMAIN sockets
    /\ ~sockets[ws].open
    /\ sockets[ws].channel \in DOMAIN job_sockets
    /\ ws \in Elems(job_sockets[sockets[ws].channel])
    /\ job_sockets' = [job_sockets EXCEPT ![sockets[ws].channel] = Remove(@, ws)]
    /\ broadcasts' = Left(ws)
    /\ sockets' = [sockets EXCEPT ![ws] = Gone]
    /\ UNCHANGED <<global_sockets, published, raised, lifecycle_vars>>

\* The except clause of websocket_global_endpoint: disconnect_global(websocket).
GlobalEndpointDisconnect(ws) ==
    /\ ws \in DOMAIN sockets
    /\ ~sockets[ws].open
    /\ ws \in Elems(global_sockets)
    /\ global_sockets' = Remove(global_sockets, ws)
    /\ broadcasts' = Left(ws)
    /\ sockets' = [sockets EXCEPT ![ws] = Gone]
    /\ UNCHANGED <<job_sockets, published, raised, lifecycle_vars>>

\* disconnect_job(websocket, job_id) for a websocket that is not in the list of
\* job_id: with no list for job_id nothing happens; with a list, list.remove
\* raises ValueError.
DisconnectJobUnregistered(ws, job_id) ==
    /\ job_id \in DOMAIN job_sockets => ws \notin Elems(job_sockets[job_id])
    /\ raised' = (raised \/ job_id \in DOMAIN job_sockets)
    /\ UNCHANGED <<job_sockets, global_sockets, sockets, broadcasts, published,
                   lifecycle_vars>>

\* disconnect_global(websocket) for a websocket that is not in the global list:
\* the membership test makes it a no-op.
DisconnectGlobalUnregistered(ws) ==
    /\ ws \notin Elems(global_sockets)
    /\ UNCHANGED raised
    /\ UNCHANGED <<job_sockets, global_sockets, sockets, broadcasts, published,
                   lifecycle_vars>>

\* "await connection.send_text(...)" inside try / except: pass.  An open websocket
\* gets the update; on a closed one send_text raises and nothing is delivered.
send_text(socks, ws, update) ==
    IF socks[ws].open THEN [socks EXCEPT ![ws].received = Append(@, update)] ELSE socks

\* The position of the first open websocket at or after position i of the list:
\* a send_text that raises does not suspend, the loop goes on to the next element.
RECURSIVE NextOpen(_, _)
NextOpen(list, i) ==
    IF i > Len(list) THEN i
    ELSE IF sockets[list[i]].open THEN i
    ELSE NextOpen(list, i + 1)

\* The for loop of a broadcast from position i of its list, up to the next
\* suspension (in send_text on an open websocket) or to the end of the list.
\* The loop reads the list as it is now: the iterator of a Python list is an
\* index into the live list.
Iterate(publisher, b) ==
    LET list == ListOf(b.update)
        k == NextOpen(list, b.i)
    IN IF k > Len(list)
       THEN /\ broadcasts' = Pop(broadcasts, publisher)
            /\ UNCHANGED sockets
       ELSE /\ sockets' = send_text(sockets, list[k], b.update)
            /\ broadcasts' = (publisher :> [b EXCEPT !.i = k + 1]) @@ broadcasts

\* broadcast_job_update / broadcast_global_update is called: the update is built
\* and the loop runs to its first suspension.
Broadcast(publisher) ==
    /\ publisher \notin DOMAIN broadcasts
    /\ Len(published) < MaxPublishes
    /\ published' = Append(published, publisher)
    /\ LET update == IF publisher = SystemPublisher THEN SystemUpdate(Len(published) + 1)
                     ELSE JobUpdate(publisher, Len(published) + 1)
       IN Iterate(publisher, [update |-> update, i |-> 1,
                              stayed |-> Elems(ListOf(update))])
    /\ UNCHANGED <<job_sockets, global_sockets, raised, lifecycle_vars>>

\* The broadcast of a publisher resumes after a send_text.
BroadcastResumes(publisher) ==
    /\ publisher \in DOMAIN broadcasts
    /\ Iterate(publisher, broadcasts[publisher])
    /\ UNCHANGED <<job_sockets, global_sockets, published, raised, lifecycle_vars>>

ConnNext ==
    \/ \E ws \in WebSockets, job_id \in RequestIds : JobEndpointConnect(ws, job_id)
    \/ \E ws \in WebSockets : GlobalEndpointConnect(ws)
    \/ \E ws \in WebSockets : ClientCloses(ws)
    \/ \E ws \in WebSockets : JobEndpointDisconnect(ws)
    \/ \E ws \in WebSockets : GlobalEndpointDisconnect(ws)
    \/ \E ws \in WebSockets, job_id \in RequestIds : DisconnectJobUnregistered(ws, job_id)
    \/ \E ws \in WebSockets : DisconnectGlobalUnregistered(ws)
    \/ \E publisher \in Publishers : Broadcast(publisher)
    \/ \E publisher \in Publishers : BroadcastResumes(publisher)

ConnSpec == Init /\ [][ConnNext]_vars

\* ------------------------------------------------------------------ claims
\* The owning task of job j has exited (returned, or left by cancellation).
Exited(j) == task[j].pc \in {"done", "cancelled"}

\* The approve_job invocations for job j that returned True.
ReturnedTrue(j) == {returned[j][i] : i \in 1..Len(returned[j])}

\* The approve_job invocations for job j that passed both early returns: they
\* returned True, or are suspended in their broadcast and will.
Accepted(j) == ReturnedTrue(j) \cup {c \in calls : c.job_id = j}

\* The engine's submission step has started for job j.
SubmissionStarted(j) == At(j, "submit") \/ task[j].result = SuccessResult

StatusEdges ==
    {<<QUEUED, RUNNING>>, <<RUNNING, WAITING_FOR_APPROVAL>>,
     <<WAITING_FOR_APPROVAL, APPROVED>>, <<WAITING_FOR_APPROVAL, REJECTED>>,
     <<APPROVED, COMPLETED>>, <<APPROVED, FAILED>>,
     <<RUNNING, COMPLETED>>, <<RUNNING, FAILED>>}

Terminal == {REJECTED, COMPLETED, FAILED}

\* C1: every change of a job's status, by its owning task or by approve_job,
\* follows one of the edges of the lifecycle state machine.
C1_StatusFollowsEdges ==
    [][\A j \in DOMAIN jobs :
          jobs'[j].status # jobs[j].status
              => <<jobs[j].status, jobs'[j].status>> \in StatusEdges]_vars

\* C2: once approve_job(job, approved=false) has returned True and the owning
\* task has exited, the job's status is REJECTED.
C2_RejectedIsFinal ==
    \A j \in DOMAIN jobs :
        (Exited(j) /\ \E c \in ReturnedTrue(j) : ~c.approved) => jobs[j].status = REJECTED

\* C3: at most one approve_job call per job ever returns True.
C3_AtMostOneDecision ==
    \A j \in DOMAIN jobs : Cardinality(ReturnedTrue(j)) <= 1

\* C4: a job whose status is REJECTED, COMPLETED or FAILED keeps that status in
\* every later step.
C4_TerminalIsStable ==
    [][\A j \in DOMAIN jobs :
          jobs[j].status \in Terminal => jobs'[j].status = jobs[j].status]_vars

\* C5: of the approve_job calls that interleave on one waiting job only one gets
\* past the gate check, and the value approval_callback returns to the engine is
\* the decision of that call.
C5_ExactlyOnceWake ==
    \A j \in DOMAIN jobs :
        /\ Cardinality(Accepted(j)) <= 1
        /\ task[j].approved # Missing
               => \E c \in Accepted(j) : task[j].approved = PyBool(c.approved)

\* C6: for a job that requires approval, the submission step starts and the job
\* becomes COMPLETED only after an approve_job call with approved=true returned True.
C6_NoSubmissionWithoutApproval ==
    \A j \in DOMAIN jobs :
        (/\ jobs[j].request_data.require_human_approval
         /\ SubmissionStarted(j) \/ jobs[j].status = COMPLETED)
            => \E c \in ReturnedTrue(j) : c.approved

\* C7: when approve_job(job, true, reason, approver) returned True for a waiting
\* job and the submission succeeded, the job ends COMPLETED with approved_by the
\* approver and approval_reason the reason.
C7_ApprovedJobCompletes ==
    \A j \in DOMAIN jobs :
        \A c \in ReturnedTrue(j) :
            (/\ c.approved
             /\ c.seen.status = WAITING_FOR_APPROVAL
             /\ At(j, "done")
             /\ task[j].result = SuccessResult)
                => /\ jobs[j].status = COMPLETED
                   /\ jobs[j].approved_by = c.analyst_name
                   /\ jobs[j].approval_reason = c.reason

\* C8: whenever a request handler can run, get_pending_approvals() lists exactly
\* the jobs whose status is WAITING_FOR_APPROVAL.
C8_PendingIffWaiting ==
    LoopFree =>
        get_pending_approvals = {j \in DOMAIN jobs : jobs[j].status = WAITING_FOR_APPROVAL}

\* A step in which an approve_job invocation returns False.
ReturnsFalse ==
    /\ ncalls' = ncalls + 1
    /\ calls' = calls
    /\ returned' = returned

\* C9: approve_job on an unknown job id, or on a job with no entry in
\* pending_approvals, returns False and changes neither a job record nor
\* pending_approvals, approval_data or what any websocket has received; no
\* invocation that saw an unknown job or no gate entry gets past the early returns.
C9_NoGateReturnsFalse ==
    [][/\ ReturnsFalse
           => UNCHANGED <<jobs, pending_approvals, approval_data, job_connections>>
       /\ \A j \in RequestIds :
              \A c \in (calls' \cup {returned'[j][i] : i \in 1..Len(returned'[j])}) :
                  c.seen.status # "unknown" /\ c.seen.gate]_vars

\* C9 happens: one call named an unknown id, another a job whose owning task had
\* finished, and both returned False.
C9_Witness ==
    /\ \E s \in refused : s.status = "unknown"
    /\ \E s \in refused : s.status \in {COMPLETED, FAILED} /\ ~s.gate

\* C10: once the owning task of a job has exited, neither pending_approvals nor
\* approval_data holds an entry for the job.
C10_GateReleasedOnExit ==
    \A j \in JobIds :
        Exited(j) => j \notin DOMAIN pending_approvals /\ j \notin DOMAIN approval_data

\* C10 happens: a task was cancelled while it was suspended at the gate with no
\* decision, and its entries are gone.
C10_Witness ==
    \E j \in DOMAIN jobs :
        /\ At(j, "cancelled")
        /\ jobs[j].status = WAITING_FOR_APPROVAL
        /\ j \notin DOMAIN pending_approvals

\* The updates in a received log.
Received(log) == {log[i] : i \in 1..Len(log)}

\* An exception ended the work of job j's owning task, which then returned: it
\* escaped to the handler of process_job_with_real_browser (no engine result), or
\* the engine reported it as its error result.
ExceptionEnded(tasks, j) ==
    tasks[j].pc = "done" /\ tasks[j].result \in {None, EngineErrorResult}

C12_NoActiveStatusAfterExit ==
    \A j \in DOMAIN jobs :
        Exited(j) => jobs[j].status \notin {RUNNING, WAITING_FOR_APPROVAL}

\* C13: a job submitted with require_human_approval=false is never
\* WAITING_FOR_APPROVAL, never has an entry in pending_approvals or approval_data
\* and its websocket never receives approval_required; once its engine call has
\* given the success result the job reaches COMPLETED (unless the task is cancelled
\* before the call returns).
C13_NoApprovalPath ==
    /\ [](\A j \in DOMAIN jobs :
              ~jobs[j].request_data.require_human_approval
                  => /\ jobs[j].status # WAITING_FOR_APPROVAL
                     /\ j \notin DOMAIN pending_approvals
                     /\ j \notin DOMAIN approval_data
                     /\ Connected(j) => "approval_required" \notin Received(job_connections[j]))
    /\ \A j \in JobIds :
           (j \in DOMAIN jobs /\ task[j].result = SuccessResult
                /\ ~jobs[j].request_data.require_human_approval)
               ~> (At(j, "cancelled") \/ (j \in DOMAIN jobs /\ jobs[j].status = COMPLETED))

\* C13 happens: a job that needs no approval has completed, watched by a websocket
\* since before its form was ready.
C13_Witness ==
    \E j \in DOMAIN jobs :
        /\ ~jobs[j].request_data.require_human_approval
        /\ At(j, "done")
        /\ jobs[j].status = COMPLETED
        /\ Connected(j)
        /\ Len(job_connections[j]) >= 3

\* C14: after a reject decision (approve_job with approved=false returned True and
\* the engine returned its rejection result), the job's stored result is that
\* result, with reason 'Rejected by human reviewer', and no error is recorded.
C14_RejectionRecorded ==
    \A j \in DOMAIN jobs :
        (/\ At(j, "done")
         /\ task[j].result = RejectedResult
         /\ \E c \in ReturnedTrue(j) : ~c.approved)
            => /\ jobs[j].result = RejectedResult
               /\ jobs[j].result.reason = "Rejected by human reviewer"
               /\ jobs[j].error = NoError

\* The n-th broadcast's update, for a broadcast of a job's coroutine.
UpdateNo(n) == JobUpdate(published[n], n)

\* Websocket ws is registered for job j and its client is there.
Subscribed(ws, j) ==
    /\ ws \in DOMAIN sockets
    /\ sockets[ws].open
    /\ sockets[ws].channel = j
    /\ j \in DOMAIN job_sockets
    /\ ws \in Elems(job_sockets[j])

\* C15: for broadcasts E1 then E2 of job J's owning task, a websocket that has
\* been subscribed to J since before E1 started and has received E2 received E1
\* before it, whatever the monitoring task and approve_job publish meanwhile.
C15_PublishOrderPerSubscriber ==
    \A j \in PublishingJobs :
        \A ws \in WebSockets :
            \A n1, n2 \in 1..Len(published) :
                (/\ Subscribed(ws, j)
                 /\ n1 < n2
                 /\ published[n1] = [role |-> "task", job_id |-> j]
                 /\ published[n2] = [role |-> "task", job_id |-> j]
                 /\ sockets[ws].since < n1
                 /\ UpdateNo(n2) \in Received(sockets[ws].received))
                    => \E i, k \in 1..Len(sockets[ws].received) :
                           /\ i < k
                           /\ sockets[ws].received[i] = UpdateNo(n1)
                           /\ sockets[ws].received[k] = UpdateNo(n2)

\* C16: the step in which a job becomes RUNNING, COMPLETED or FAILED delivers an
\* event about that job to every connected global websocket.
C16_GlobalSubscriberReceives ==
    [][\A j \in DOMAIN jobs :
          \A ws \in DOMAIN global_connections :
              (jobs'[j].status # jobs[j].status /\ jobs'[j].status \in {RUNNING, COMPLETED, FAILED})
                  => /\ ws \in DOMAIN global_connections'
                     /\ Len(global_connections'[ws]) = Len(global_connections[ws]) + 1]_vars

\* C17: a websocket registered for job J has received only job updates whose
\* job_id is J: none of another job, none of the global channel.
C17_JobSubscriberGetsOwnJobOnly ==
    \A ws \in DOMAIN sockets :
        sockets[ws].channel # Global
            => \A u \in Received(sockets[ws].received) :
                   u.type = "job_update" /\ u.job_id = sockets[ws].channel

\* C17 happens: a websocket has been subscribed to one job since before any
\* broadcast; a broadcast for another job and a global broadcast have returned,
\* another websocket received an update, and this one received nothing.
C17_Witness ==
    \E ws, other \in DOMAIN sockets :
        /\ sockets[ws].channel \in RequestIds
        /\ Subscribed(ws, sockets[ws].channel)
        /\ sockets[ws].since = 0
        /\ sockets[ws].received = <<>>
        /\ sockets[other].received # <<>>
        /\ broadcasts = Empty
        /\ SystemPublisher \in Elems(published)
        /\ \E n \in 1..Len(published) :
               published[n] # SystemPublisher /\ published[n].job_id # sockets[ws].channel

\* C18: when a broadcast returns, every websocket that stayed registered for the
\* whole of it, and whose client is there, has received the update, although
\* send_text raised on another one.
C18_PublishSurvivesSubscribers ==
    [][\A publisher \in DOMAIN broadcasts :
          publisher \notin DOMAIN broadcasts'
              => \A ws \in broadcasts[publisher].stayed :
                     sockets'[ws].open
                         => broadcasts[publisher].update \in Received(sockets'[ws].received)]_vars

\* C19: disconnect_job and disconnect_global for a websocket that is not
\* registered return normally (and change no list).
C19_UnregisteredDisconnectIsNoOp == ~raised

\* C20: while a job is RUNNING its progress_percentage stays within 0..100 and no
\* update lowers it.
C20_ProgressMonotone ==
    [][\A j \in DOMAIN jobs :
          jobs[j].status = RUNNING
              => /\ jobs'[j].progress_percentage \in 0..100
                 /\ jobs'[j].progress_percentage >= jobs[j].progress_percentage]_vars

\* C21: the agent that runs a job is the one the submitted body's browser_engine
\* names (PuppeteerBrowserAgent for 'puppeteer', SimpleBrowserAgent for any other
\* value or none), and the job's request_data holds the selector as submitted.
C21_EngineFollowsSelector ==
    \A j \in DOMAIN jobs :
        /\ task[j].agent # Missing
               => task[j].agent = IF submitted[j] = PUPPETEER THEN "PuppeteerBrowserAgent"
                                  ELSE "SimpleBrowserAgent"
        /\ submitted[j] # Missing
               => Get(jobs[j].request_data, "browser_engine", Missing) = submitted[j]

\* C22: the step in which a job becomes COMPLETED or FAILED delivers to the job's
\* connected websocket an event of type 'status_change' (the event a monitor
\* waits for, carrying the new status).
C22_TerminalStatusChangeEvent ==
    [][\A j \in DOMAIN jobs :
          (/\ jobs'[j].status # jobs[j].status
           /\ jobs'[j].status \in {COMPLETED, FAILED}
           /\ Connected(j))
              => /\ j \in DOMAIN job_connections'
                 /\ job_connections'[j] = Append(job_connections[j], "status_change")]_vars

\* C23: a submission adds exactly one job, under an id no job had (the records
\* that existed are kept), with status QUEUED, progress_percentage 0, result null
\* and error null; it returns with the owning task created but not yet run, the
\* loop free, and the job stays QUEUED until that task's first step.
C23_CreateJobQueued ==
    [][/\ \A j \in PairJobs :
              (j \notin DOMAIN jobs /\ j \in DOMAIN jobs')
                  => /\ DOMAIN jobs' = DOMAIN jobs \cup {j}
                     /\ \A i \in DOMAIN jobs : jobs'[i] = jobs[i]
                     /\ jobs'[j].status = QUEUED
                     /\ jobs'[j].progress_percentage = 0
                     /\ jobs'[j].result = None
                     /\ jobs'[j].error = NoError
                     /\ task'[j].pc = "created"
                     /\ running' = Nobody
       /\ \A j \in DOMAIN jobs' : task'[j].pc = "created" => jobs'[j].status = QUEUED]_vars

\* C23 happens: the second job is there, QUEUED, its task not yet run and the loop
\* free for a reader, while the first job waits for its approval.
C23_Witness ==
    /\ DOMAIN jobs = PairJobs
    /\ jobs[2].status = QUEUED
    /\ At(2, "created")
    /\ LoopFree
    /\ jobs[1].status = WAITING_FOR_APPROVAL

\* C24: a job whose error field is not null has status FAILED.
C24_ErrorOnlyOnFailed ==
    \A j \in DOMAIN jobs : jobs[j].error # NoError => jobs[j].status = FAILED

\* C25: a job's result is null while its status is QUEUED, RUNNING,
\* WAITING_FOR_APPROVAL or APPROVED, and not null once its status is REJECTED,
\* COMPLETED or FAILED.
C25_ResultIffTerminal ==
    \A j \in DOMAIN jobs : (jobs[j].result # None) <=> (jobs[j].status \in Terminal)

\* The job was submitted with a target_url that does not start with 'http'.
InvalidTarget(j) == ~StartsWithHttp(jobs[j].request_data.target_url)

\* The positions of the owning task inside the engine's fill operation.
InEngine == {"initialize", "puppeteer", "navigate", "filling", "ready", "monitoring",
             "gate_broadcast", "gate_wait", "stop_monitoring", "submit", "cleanup"}

\* The entry of job i in a dict (no entry: the empty mapping), and what belongs to
\* job i: its record, its owning task, its gate entry, its stored
\* preview and screenshot, its monitoring task and its websocket.
Own(d, i) == [k \in DOMAIN d \cap {i} |-> d[k]]

JobPart(i) ==
    <<Own(jobs, i), task[i], Own(pending_approvals, i), Own(approval_data, i),
      Own(job_screenshots, i), monitor[i], Own(job_connections, i)>>

\* C26: a job whose target_url does not start with 'http' never enters the
\* engine's fill operation, is never WAITING_FOR_APPROVAL and never has a gate
\* entry; when its task has returned it is FAILED, with error 'Invalid target URL'
\* when the url check made the result; and no step of its task changes anything
\* of another job.
C26_InvalidUrlFails ==
    /\ [](\A j \in DOMAIN jobs :
              InvalidTarget(j)
                  => /\ task[j].pc \notin InEngine
                     /\ jobs[j].status # WAITING_FOR_APPROVAL
                     /\ j \notin DOMAIN pending_approvals
                     /\ monitor[j] = NoMonitor
                     /\ At(j, "done")
                            => /\ jobs[j].status = FAILED
                               /\ task[j].result = InvalidUrlResult
                                      => /\ jobs[j].error = "Invalid target URL"
                                         /\ jobs[j].result = InvalidUrlResult)
    /\ [][\A j \in DOMAIN jobs :
              (InvalidTarget(j) /\ task'[j] # task[j])
                  => \A i \in PairJobs \ {j} : JobPart(i)' = JobPart(i)]_vars

\* C26 happens: the second job had an invalid url and has ended FAILED with that
\* error, while the first job, with a valid url, waits at its gate.
C26_Witness ==
    /\ DOMAIN jobs = PairJobs
    /\ InvalidTarget(2)
    /\ At(2, "done")
    /\ jobs[2].status = FAILED
    /\ jobs[2].error = "Invalid target URL"
    /\ At(1, "gate_wait")
    /\ jobs[1].status = WAITING_FOR_APPROVAL

\* C27: in the Puppeteer engine a step in which the field-filling, file-upload or
\* submission sub-step times out sends a progress update, goes on to the step that
\* follows and returns nothing yet; and a call in which sub-steps timed out, and
\* which the reviewer did not reject, returns a result that makes the job
\* COMPLETED, not FAILED.
C27_PuppeteerTimeoutNotFatal ==
    /\ [][pup'.timed_out # pup.timed_out
              => /\ Len(pup'.progress) > Len(pup.progress)
                 /\ pup'.pc \in {"upload", "ready", "submitted"}
                 /\ pup'.result = None]_vars
    /\ []((pup.pc = "returned" /\ pup.timed_out # {} /\ pup.decision # PyBool(FALSE))
              => ResultStatus(pup.result) = COMPLETED)

\* C27 happens: all three sub-steps timed out in one call, which returned success.
C27_Witness ==
    /\ pup.pc = "returned"
    /\ pup.timed_out = {"fill", "upload", "submit"}
    /\ pup.result = PupSuccessResult

\* A step taken for job a: a step of its owning task (a callback, a failure and
\* an exception among them) or of its monitoring task, or of an approve_job call
\* that names a.
JobStep(a) ==
    \/ TaskStart(a) \/ InvokeEngine(a) \/ HandleException(a)
    \/ InitializeOk(a) \/ InitializeFails(a) \/ Navigate(a) \/ FillingRaises(a)
    \/ FormReady(a) \/ StartMonitoring(a) \/ RequestApproval(a) \/ NoApprovalRequired(a)
    \/ WaitForApproval(a) \/ ResumeFromGate(a) \/ AfterDecision(a) \/ Submit(a)
    \/ RecordResult(a) \/ Finally(a)
    \/ continuous_screenshot_loop(a) \/ MonitoringTaskEnds(a)
    \/ \E approved \in BOOLEAN : approve_job(a, approved)
    \/ \E call \in calls : call.job_id = a /\ approve_job_signal(call)

\* C28: a step taken for job A leaves what belongs to every other job B as it
\* was: B's record, gate entry, stored preview and screenshot, and B's websocket
\* with what it received (and B's owning and monitoring tasks).
C28_JobStepsAreLocal ==
    [][\A b \in PairJobs :
          JobPart(b)' = JobPart(b) \/ \A a \in PairJobs \ {b} : ~JobStep(a)]_vars

\* C28 happens: job 1 failed by an exception and job 2 was rejected by an analyst,
\* while the other was there with its gate entry, preview, screenshot and
\* websocket.
C28_Witness ==
    /\ DOMAIN jobs = PairJobs
    /\ At(1, "done") /\ task[1].result = EngineErrorResult /\ jobs[1].status = FAILED
    /\ jobs[2].status = REJECTED
    /\ 2 \in DOMAIN pending_approvals /\ 2 \in DOMAIN approval_data
    /\ 2 \in DOMAIN job_screenshots
    /\ Connected(2) /\ Len(job_connections[2]) >= 3

\* Job a is suspended at its approval gate and no decision has been recorded.
WaitsUndecided(a) ==
    /\ a \in DOMAIN jobs
    /\ At(a, "gate_wait")
    /\ ~pending_approvals[a]
    /\ a \notin {c.job_id : c \in calls}

\* C29: a job suspended at its gate does not hold the event loop; while it
\* waits and no coroutine holds the loop, a submission of another job can be
\* taken, and the owning task of every other job that is neither finished nor
\* waiting at its own gate can take its next step.
C29_GateWaitDoesNotBlock ==
    \A a \in PairJobs :
        WaitsUndecided(a)
            => /\ running # TaskOf(a)
               /\ \A b \in PairJobs \ {a} :
                      LoopFree
                          => /\ b \notin DOMAIN jobs
                                 => ENABLED (\E body \in PairBodies : submit_form_filling_job(body))
                             /\ task[b].pc \notin {"none", "gate_wait", "done"}
                                 => ENABLED TaskStep(b)

\* C29 happens: job 1 still waits at its gate, undecided, and job 2, submitted
\* after it, has run to COMPLETED.
C29_Witness ==
    /\ WaitsUndecided(1)
    /\ ncalls = 0
    /\ 2 \in DOMAIN jobs
    /\ At(2, "done")
    /\ jobs[2].status = COMPLETED

\* The last update the websocket of job j received in this step, if it received one.
NewUpdates(j) ==
    IF j \in DOMAIN job_connections /\ j \in DOMAIN job_connections'
          /\ Len(job_connections'[j]) > Len(job_connections[j])
    THEN {job_connections'[j][i] : i \in (Len(job_connections[j]) + 1)..Len(job_connections'[j])}
    ELSE {}

\* C30: for a job that started screenshot monitoring, the step that removes the
\* job's entry from pending_approvals (after approval, rejection, or cancellation
\* at the gate) finds the monitoring task ended; and once that task has ended it
\* stays ended, stores no screenshot and publishes no screenshot_update.
C30_MonitoringStopsBeforeGateRelease ==
    [][\A j \in JobIds :
          /\ (/\ j \in DOMAIN pending_approvals
              /\ j \notin DOMAIN pending_approvals'
              /\ monitor[j].state # "none")
                 => monitor[j].state = "finished" /\ monitor'[j].state = "finished"
          /\ monitor[j].state = "finished"
                 => /\ monitor'[j] = monitor[j]
                    /\ job_screenshots' = job_screenshots
                    /\ "screenshot_update" \notin NewUpdates(j)]_vars

\* C30 happens: the task was cancelled while it waited at the gate, after the
\* monitoring loop had published a screenshot to the job's websocket; the
\* monitoring task has ended and the gate entry is gone.
C30_Witness ==
    \E j \in DOMAIN jobs :
        /\ At(j, "cancelled")
        /\ jobs[j].status = WAITING_FOR_APPROVAL
        /\ monitor[j] = [state |-> "finished", shots |-> 1]
        /\ j \notin DOMAIN pending_approvals
        /\ Connected(j)
        /\ Len(job_connections[j]) >= 5

\* What the read operations must leave alone for job j: its record (status,
\* progress_percentage, result, error and the rest), its stored screenshot and
\* preview, and its gate entry.
Stored(j) ==
    <<Own(jobs, j), Own(job_screenshots, j), Own(approval_data, j), Own(pending_approvals, j)>>

\* C31: a step of a read operation (get job, pending approvals, preview,
\* screenshot, stats, health) or of the screenshot refresh leaves every job's
\* record, stored screenshot, preview and gate entry as they were; a refresh is
\* accepted only for a known job that is RUNNING or WAITING_FOR_APPROVAL; and
\* get-screenshot answers 200 with the stored screenshot exactly when one is
\* stored for the job, and 404 otherwise.
C31_ReadsChangeNothing ==
    [][ReadStep
          => /\ \A j \in RequestIds : Stored(j)' = Stored(j)
             /\ task' = task /\ monitor' = monitor
             /\ (reply'.op = "force_screenshot_refresh" /\ reply'.code = 200)
                    => /\ reply'.job_id \in DOMAIN jobs
                       /\ jobs[reply'.job_id].status \in {RUNNING, WAITING_FOR_APPROVAL}
             /\ reply'.op = "get_job_screenshot"
                    => /\ reply'.code \in {200, 404}
                       /\ reply'.code = 200 <=> reply'.job_id \in DOMAIN job_screenshots
                       /\ reply'.code = 200 => reply'.body = job_screenshots[reply'.job_id]]_vars

\* C31 happens: a refresh was accepted for a job that waits at its gate with a
\* stored screenshot and preview, and the job's websocket received the request.
C31_Witness ==
    /\ reply.op = "force_screenshot_refresh" /\ reply.code = 200
    /\ 1 \in DOMAIN jobs
    /\ jobs[1].status = WAITING_FOR_APPROVAL
    /\ jobs[1].progress_percentage = 85
    /\ 1 \in DOMAIN pending_approvals /\ 1 \in DOMAIN approval_data
    /\ 1 \in DOMAIN job_screenshots
    /\ Refreshes(1) = 1

\* The jobs for which a decision with this value is recorded.
Decided(approved) == {j \in DOMAIN jobs : jobs[j].approved = PyBool(approved)}

\* C32: the stats operation reports approved_jobs as the number of jobs with a
\* recorded approve decision and rejected_jobs as the number with a recorded
\* reject decision (totals, which a job's later final status does not lower),
\* and its pending_approvals is the count that health reports.
C32_StatsAreTotals ==
    [][get_approval_stats
          => /\ reply'.body.approved_jobs = Cardinality(Decided(TRUE))
             /\ reply'.body.rejected_jobs = Cardinality(Decided(FALSE))
             /\ reply'.body.pending_approvals = Health.pending_approvals]_vars

\* C33: when a call of fill_generic_form_puppeteer with manage_server=true has
\* returned (success, rejection, failed initialization or exception), no server
\* process that the agent's manager spawned is still running.
C33_ManagedServerStopped ==
    (pup.pc = "returned" /\ pup.manage_server) => manager.process # "running"

\* The owning task of job j is still in the approval_required broadcast of
\* approval_callback (it has not reached approval_event.wait()), and approve_job
\* calls have recorded a decision, set the event and returned.
WokenEarly(j) ==
    /\ At(j, "gate_broadcast")
    /\ j \in DOMAIN pending_approvals
    /\ pending_approvals[j]
    /\ returned[j] # <<>>

\* C34: when approve_job has recorded a decision and set the event while the
\* owning task was still in the approval_required broadcast, the task's next
\* step passes approval_event.wait() without suspending, and approval_callback
\* returns the decision of that call.
C34_NoLostWakeup ==
    [][\A j \in JobIds :
          (WokenEarly(j) /\ task'[j] # task[j])
              => /\ task'[j].pc = "stop_monitoring"
                 /\ \A i \in 1..Len(returned[j]) :
                        task'[j].approved = PyBool(returned[j][i].approved)]_vars

\* C35: in every state the jobs with a stored preview are the jobs with a gate
\* entry; and the preview operation, for a known job, returns the engine's
\* preview while the job has a gate entry and the empty preview otherwise
\* (before approval was requested, and after the owning task has finished).
C35_PreviewIffGate ==
    /\ [](DOMAIN approval_data = DOMAIN pending_approvals)
    /\ [][\A job_id \in DOMAIN jobs :
              get_approval_preview(job_id)
                  => /\ reply'.code = 200
                     /\ reply'.body.form_preview =
                            IF job_id \in DOMAIN pending_approvals
                            THEN FormPreview(job_id) ELSE NoPreview]_vars

\* C35 happens: the preview was read, with the engine's preview in it, for a
\* job that an analyst has approved and whose gate entry is still there.
C35_Witness ==
    /\ reply.op = "get_approval_preview" /\ reply.code = 200
    /\ reply.job_id \in DOMAIN pending_approvals
    /\ reply.body.status = APPROVED
    /\ reply.body.form_preview = FormPreview(reply.job_id)
    /\ approval_data[reply.job_id] = reply.body.form_preview

\* The events that end a job, and how many of them a websocket has received.
TerminalEvents == {"completion", "error"}

TerminalCount(log) == Cardinality({i \in 1..Len(log) : log[i] \in TerminalEvents})

\* C36: a terminal event ('completion' or 'error') is published only by the step
\* in which the owning task stores the job's terminal status (COMPLETED with
\* 'completion', FAILED with 'error') and enters its finally clause; that step
\* publishes exactly one of the two to a connected websocket; from then on no
\* step of the owning task publishes anything for the job; so a websocket
\* receives at most one terminal event, and exactly one when it was connected
\* from the job's start to the task's end.
C36_OneTerminalEvent ==
    /\ [][\A j \in JobIds :
              LET terminal == NewUpdates(j) \cap TerminalEvents
              IN /\ terminal # {}
                     => /\ task[j].pc \notin {"finally", "done"}
                        /\ task'[j].pc = "finally"
                        /\ "completion" \in terminal => jobs'[j].status = COMPLETED
                        /\ "error" \in terminal => jobs'[j].status = FAILED
                 /\ (task[j].pc # "finally" /\ task'[j].pc = "finally" /\ Connected(j))
                     => /\ Cardinality(terminal) = 1
                        /\ NewUpdates(j) = terminal
                 /\ (task[j].pc \in {"finally", "done"} /\ task'[j] # task[j])
                     => NewUpdates(j) = {}]_vars
    /\ [](\A j \in DOMAIN job_connections :
              /\ TerminalCount(job_connections[j]) <= 1
              /\ (/\ j \in DOMAIN jobs
                  /\ At(j, "done")
                  /\ job_connections[j] # <<>>
                  /\ job_connections[j][1] = "status_change")
                     => TerminalCount(job_connections[j]) = 1)

\* C36 happens: the task of an approved job has run to its end, and the job's
\* websocket, connected since before the start, received 'completion' as its
\* last update and no 'error'.
C36_Witness ==
    \E j \in DOMAIN job_connections :
        /\ j \in DOMAIN jobs
        /\ At(j, "done")
        /\ jobs[j].status = COMPLETED
        /\ jobs[j].approved = PyBool(TRUE)
        /\ job_connections[j] # <<>>
        /\ job_connections[j][1] = "status_change"
        /\ job_connections[j][Len(job_connections[j])] = "completion"
        /\ TerminalCount(job_connections[j]) = 1

\* The owning task of job j has recorded COMPLETED.
RecordedCompleted(j) ==
    task[j].pc \in {"finally", "done"} /\ ResultStatus(task[j].result) = COMPLETED

\* C37: in every state a COMPLETED job has progress_percentage 100; and once the
\* owning task has recorded COMPLETED no step changes the job's
\* progress_percentage or publishes a progress update for it.
C37_CompletedHasFullProgress ==
    /\ [](\A j \in DOMAIN jobs :
              jobs[j].status = COMPLETED => jobs[j].progress_percentage = 100)
    /\ [][\A j \in DOMAIN jobs :
              RecordedCompleted(j)
                  => /\ jobs'[j].progress_percentage = jobs[j].progress_percentage
                     /\ "progress" \notin NewUpdates(j)]_vars

\* C37 happens: a job has run to COMPLETED through the engine, whose updates
\* its websocket received before 'completion', and the owning task has ended.
C37_Witness ==
    \E j \in DOMAIN job_connections :
        /\ j \in DOMAIN jobs
        /\ At(j, "done")
        /\ jobs[j].status = COMPLETED
        /\ jobs[j].progress_percentage = 100
        /\ Len(job_connections[j]) >= 2
        /\ job_connections[j][Len(job_connections[j]) - 1] = "progress"
        /\ job_connections[j][Len(job_connections[j])] = "completion"

\* In the Puppeteer engine every update, those of cleanup included, is sent
\* before the call returns.
PuppeteerReportsBeforeReturn == [][pup.pc = "returned" => pup' = pup]_vars

\* A step of start_server, and a step in which it returns.
StartServerStep == manager' # manager /\ pup.pc \in {"initialize", "start_server"}
StartServerReturns == StartServerStep /\ manager'.pc = "idle"
\* A step of stop_server.
StopServerStep == manager' # manager /\ pup.pc = "cleanup"

\* C38: start_server polls at most max_retries (30) times and then returns; it
\* returns success without spawning when a server already answers, success in
\* the iteration in which its spawned server answers, and failure when the
\* spawned process has exited or the polls are exhausted; after a failure return
\* the manager holds no spawned process that still runs; and stop_server without
\* a spawned process returns success and leaves the manager and the port alone.
C38_StartServerTerminates ==
    /\ [](manager.polls <= max_retries)
    /\ [][/\ (StartServerStep /\ manager.pc = "polling" /\ manager.polls = max_retries)
                 => StartServerReturns /\ ~manager'.result.success
          /\ (StartServerStep /\ manager.pc = "idle" /\ manager'.answering = "other")
                 => /\ StartServerReturns /\ manager'.result.success
                    /\ manager'.process = "none"
          /\ (StartServerStep /\ manager'.answering = "spawned")
                 => StartServerReturns /\ manager'.result.success
          /\ (StartServerStep /\ manager'.process = "exited")
                 => StartServerReturns /\ ~manager'.result.success
          /\ (StartServerReturns /\ ~manager'.result.success)
                 => manager'.process # "running"
          /\ (StopServerStep /\ manager.process = "none")
                 => /\ manager'.result.success
                    /\ manager'.process = "none"
                    /\ manager'.answering = manager.answering]_vars

====
